---- MODULE Spec2Model ----
(***************************************************************************)
(* Model of the LDS-pipelined GEMM kernel mmaSyncLds (D = alpha*A*B +      *)
(* beta*C) of rocWMMA, of the coordinate mapping it relies on and of the   *)
(* host reference gemm_cpu_h it is validated against.                      *)
(*                                                                         *)
(* A wave is the atomic unit of execution: a fragment is held as one flat  *)
(* array of registerCount * WaveSize elements (register r, lane l at index *)
(* r * WaveSize + l).  Global buffers and the LDS are arrays indexed by    *)
(* element offset from their base pointer.                                 *)
(***************************************************************************)
EXTENDS Integers, Sequences, FiniteSets, TLC

(***************************************************************************)
(* Bounds of the model.                                                    *)
(***************************************************************************)
\* Lanes per wave (AMDGCN_WAVE_SIZE on the device), scaled down.
WaveSize == 2
\* Largest K explored, in units of BlockK.
MaxKBlocks == 3
\* Number of input fill patterns explored (seeds 0 .. MaxSeed).
MaxSeed == 0
\* Largest number of waves in a launch.
MaxWaves == 2

\* Largest coordinate and displacement the address algebra is checked for.
MaxCoord == 2
row_major == "row_major"
col_major == "col_major"
Layouts == {row_major, col_major}

(***************************************************************************)
(* The instantiation modelled is InputT = int8_t, OutputT = ComputeT =     *)
(* int32_t.  static_cast<int8_t> wraps to 8 bits; int8_t -> int32_t is a   *)
(* sign extension and int32_t -> int32_t changes nothing, and the integers *)
(* of the checker are themselves 32-bit (an overflow is reported as an     *)
(* error, never wrapped).                                                  *)
(***************************************************************************)
InputT(x) == ((x + 2^7) % 2^8) - 2^7
ComputeT(x) == x
OutputT(x) == x

ceilDiv(x, y) == (x + y - 1) \div y

(***************************************************************************)
(* Kernel instantiations: the template parameters BlockM, BlockN, BlockK.  *)
(* The fragment register counts are those of wmma::fragment.               *)
(***************************************************************************)
FragASize(BlockM, BlockK) == (BlockM * BlockK) \div WaveSize
FragBSize(BlockK, BlockN) == (BlockK * BlockN) \div WaveSize
\* register_file fragment <1, registerFileWidth, FragX::size()>
FragLdsSize(regs) == (1 * WaveSize * regs) \div WaveSize

\* Variant: a build without the static_asserts.
StaticAsserts_None(BlockM, BlockN, BlockK) == TRUE
\* The four static_asserts of the kernel.
StaticAsserts(BlockM, BlockN, BlockK) ==
    /\ FragASize(BlockM, BlockK) * WaveSize = BlockM * BlockK
    /\ FragLdsSize(FragASize(BlockM, BlockK)) = FragASize(BlockM, BlockK)
    /\ FragBSize(BlockK, BlockN) * WaveSize = BlockK * BlockN
    /\ FragLdsSize(FragBSize(BlockK, BlockN)) = FragBSize(BlockK, BlockN)

(***************************************************************************)
(* MappingUtil<BlockHeight, BlockWidth, DataT, Layout>.  A wave is         *)
(* identified by <<blockIdx.x, blockIdx.y, waveRow, waveCol>>, where       *)
(* waveRow = threadIdx.x / WaveSize and waveCol = threadIdx.y.             *)
(***************************************************************************)
\* workgroupDim() = (blockDim.x / WaveSize, blockDim.y)
workgroupDim(cf) == <<cf.TBlockX \div WaveSize, cf.TBlockY>>
waveCoord(w) == <<w[3], w[4]>>
blockCoord(cf, w) ==
    <<w[1] * workgroupDim(cf)[1] + waveCoord(w)[1],
      w[2] * workgroupDim(cf)[2] + waveCoord(w)[2]>>
matrixCoord(BlockHeight, BlockWidth, blockCoordV) ==
    <<blockCoordV[1] * BlockHeight, blockCoordV[2] * BlockWidth>>
dataOffset(Layout, ld, coord) ==
    IF Layout = row_major THEN coord[1] * ld + coord[2]
                          ELSE coord[2] * ld + coord[1]
dataCoord(Layout, base, ld, coord) == base + dataOffset(Layout, ld, coord)

(***************************************************************************)
(* Fragments.  A native fragment of a rows x cols block keeps element      *)
(* (i, j) at the position the block's layout gives it inside the block; an *)
(* accumulator fragment keeps it in row order.                             *)
(***************************************************************************)
FragIndex(Layout, rows, cols, i, j) ==
    IF Layout = row_major THEN i * cols + j ELSE j * rows + i

\* A buffer read; an address outside the buffer yields the value g.
Rd(buf, addr, g) == IF addr \in DOMAIN buf THEN buf[addr] ELSE g

\* The addresses load_matrix_sync / store_matrix_sync touch for a block.
BlockAddrs(Layout, addr, ld, rows, cols) ==
    {dataCoord(Layout, addr, ld, <<i, j>>) : i \in 0..(rows-1), j \in 0..(cols-1)}

\* wmma::load_matrix_sync(frag, addr, ld) of a rows x cols block.
load_matrix_sync(Layout, buf, addr, ld, rows, cols, g) ==
    [x \in 0..(rows * cols - 1) |->
        LET i == IF Layout = row_major THEN x \div cols ELSE x % rows
            j == IF Layout = row_major THEN x % cols ELSE x \div rows
        IN  Rd(buf, dataCoord(Layout, addr, ld, <<i, j>>), g)]

\* wmma::load_matrix_sync(fragC, addr, ld, mem_row_major | mem_col_major)
load_matrix_sync_acc(Layout, buf, addr, ld, BlockM, BlockN, g) ==
    [x \in 0..(BlockM * BlockN - 1) |->
        Rd(buf, dataCoord(Layout, addr, ld, <<x \div BlockN, x % BlockN>>), g)]

\* wmma::store_matrix_sync(addr, fragC, ld, mem_row_major | mem_col_major):
\* the buffer after the store (addresses outside the buffer are dropped).
store_matrix_sync_acc(Layout, buf, addr, ld, BlockM, BlockN, frag) ==
    [y \in DOMAIN buf |->
        IF \E x \in DOMAIN frag :
              dataCoord(Layout, addr, ld, <<x \div BlockN, x % BlockN>>) = y
        THEN frag[CHOOSE x \in DOMAIN frag :
              dataCoord(Layout, addr, ld, <<x \div BlockN, x % BlockN>>) = y]
        ELSE buf[y]]

\* The LDS addresses of a register file of regs rows x WaveSize columns.
LdsSlotAddrs(addr, ld, regs) ==
    {addr + r * ld + l : r \in 0..(regs-1), l \in 0..(WaveSize-1)}

\* store_matrix_sync(addrLds, reinterpret_cast<FragLds&>(frag), ldLds)
store_matrix_sync_lds(mem, addr, ld, regs, frag) ==
    [y \in DOMAIN mem |->
        IF y \in LdsSlotAddrs(addr, ld, regs)
        THEN frag[((y - addr) \div ld) * WaveSize + ((y - addr) % ld)]
        ELSE mem[y]]

\* load_matrix_sync(reinterpret_cast<FragLds&>(frag), addrLds, ldLds)
load_matrix_sync_lds(mem, addr, ld, regs) ==
    [x \in 0..(regs * WaveSize - 1) |->
        mem[addr + (x \div WaveSize) * ld + (x % WaveSize)]]

\* wmma::fill_fragment
fill_fragment(n, v) == [x \in 0..(n-1) |-> v]

RECURSIVE DotAB(_, _, _, _, _, _, _)
DotAB(cf, fa, fb, i, j, kk, acc) ==
    IF kk = cf.BlockK THEN acc
    ELSE DotAB(cf, fa, fb, i, j, kk + 1,
               ComputeT(acc
                 + ComputeT(fa[FragIndex(cf.LayoutA, cf.BlockM, cf.BlockK, i, kk)])
                   * ComputeT(fb[FragIndex(cf.LayoutB, cf.BlockK, cf.BlockN, kk, j)])))

\* wmma::mma_sync(d, a, b, c): d = a * b + c on one block.
mma_sync(cf, fa, fb, fc) ==
    [x \in 0..(cf.BlockM * cf.BlockN - 1) |->
        DotAB(cf, fa, fb, x \div cf.BlockN, x % cf.BlockN, 0, fc[x])]

(***************************************************************************)
(* Host side: input data and the reference GEMM.                           *)
(***************************************************************************)
\* fillRand(mat, m, n); rando = rand() % 5 of row i is taken from the seed.
fillRand(seed, m, n) ==
    [x \in 0..(m * n - 1) |->
        LET i == x \div n
            j == x % n
            rando == (seed + 2 * i) % 5
            value == (rando + j) % 5
        IN  IF value % 3 = 0 THEN InputT(-value) ELSE InputT(value)]

rowMjr(row, col, ld) == row * ld + col
colMjr(row, col, ld) == col * ld + row
aIndex(cf, row, col, ld) ==
    IF cf.LayoutA = row_major THEN rowMjr(row, col, ld) ELSE colMjr(row, col, ld)
bIndex(cf, row, col, ld) ==
    IF cf.LayoutB = row_major THEN rowMjr(row, col, ld) ELSE colMjr(row, col, ld)
cIndex(cf, row, col, ld) ==
    IF cf.LayoutC = row_major THEN rowMjr(row, col, ld) ELSE colMjr(row, col, ld)
dIndex(cf, row, col, ld) ==
    IF cf.LayoutD = row_major THEN rowMjr(row, col, ld) ELSE colMjr(row, col, ld)

RECURSIVE gemm_accum(_, _, _, _, _, _, _)
gemm_accum(cf, ma, mb, i, j, h, accum) ==
    IF h = cf.k THEN accum
    ELSE gemm_accum(cf, ma, mb, i, j, h + 1,
                    ComputeT(accum + ComputeT(ma[aIndex(cf, i, h, cf.lda)])
                                     * ComputeT(mb[bIndex(cf, h, j, cf.ldb)])))

\* The value gemm_cpu_h stores to d[dIndex(i, j, ldd)].
gemm_cpu_h(cf, ma, mb, mc, i, j) ==
    OutputT(ComputeT(cf.alpha * gemm_accum(cf, ma, mb, i, j, 0, ComputeT(0))
                     + cf.beta * ComputeT(mc[cIndex(cf, i, j, cf.ldc)])))

(***************************************************************************)
(* Launch configurations.                                                  *)
(***************************************************************************)
\* The instantiations asked for, and those the static_asserts let build.
CandidateShapes ==
    {<<WaveSize, WaveSize, 1>>, <<WaveSize, 1, WaveSize>>,
     <<1, 1, 1>>, <<WaveSize, 1, 1>>, <<1, WaveSize, 1>>}
BlockShapes == {s \in CandidateShapes : StaticAsserts(s[1], s[2], s[3])}
WgShapes == {<<1, 1>>, <<2, 1>>, <<1, 2>>}
DimChoices(Block) == {Block, 2 * Block} \cup (IF Block > 1 THEN {Block + 1} ELSE {})
KChoices(BlockK) ==
    {q * BlockK : q \in 1..MaxKBlocks}
      \cup (IF BlockK > 1 THEN {BlockK - 1, 2 * BlockK + 1} ELSE {})
Alphas == {0, 2}
Betas == {0, 3}
\* Values the memory outside the global buffers may hold.
Garbage == {0, 5}

gridDim(cf) ==
    <<ceilDiv(cf.m, cf.BlockM * (cf.TBlockX \div WaveSize)),
      ceilDiv(cf.n, cf.BlockN * cf.TBlockY)>>

Waves(cf) ==
    {<<bx, by, wr, wc>> :
        bx \in 0..(gridDim(cf)[1] - 1), by \in 0..(gridDim(cf)[2] - 1),
        wr \in 0..(workgroupDim(cf)[1] - 1), wc \in 0..(workgroupDim(cf)[2] - 1)}
Workgroups(cf) == {<<w[1], w[2]>> : w \in Waves(cf)}
SameWorkgroup(v, w) == v[1] = w[1] /\ v[2] = w[2]

MakeCfg(s, la, lb, lc, ld, m, n, k, wg, alpha, beta, seed, g) ==
    [BlockM |-> s[1], BlockN |-> s[2], BlockK |-> s[3],
     LayoutA |-> la, LayoutB |-> lb, LayoutC |-> lc, LayoutD |-> ld,
     m |-> m, n |-> n, k |-> k,
     lda |-> IF la = row_major THEN k ELSE m,
     ldb |-> IF lb = row_major THEN n ELSE k,
     ldc |-> IF lc = row_major THEN n ELSE m,
     ldd |-> IF ld = row_major THEN n ELSE m,
     TBlockX |-> wg[1] * WaveSize, TBlockY |-> wg[2],
     alpha |-> alpha, beta |-> beta, seed |-> seed, garbage |-> g]

(***************************************************************************)
(* State.                                                                  *)
(***************************************************************************)
VARIABLES
    cfg,        \* template and launch parameters of the kernel
    a, b, c, d, \* the global buffers
    lds,        \* per workgroup: the dynamic shared memory (localMemPtr)
    pc,         \* per wave: position in the kernel
    fragAcc, fragA, fragB, fragANext, fragBNext, fragC,
    addrA, addrB, endA,
    arrivals,   \* per wave: number of synchronize_workgroup() calls made
    trace,      \* per wave: the memory / barrier / mma operations issued
    oobStores,  \* global D addresses stored to outside the buffer
    launch,     \* number of the current launch of the kernel on these buffers
    dPrev,      \* contents of d when the current launch started
    tcfg,       \* test_load_store_matrix_d: template and launch parameters
    a_in, b_in, a_out, b_out,   \* test_load_store_matrix_d: its buffers
    tpc,        \* per wave of the test kernel: <<loop, i>>
    ttrace,     \* per wave of the test kernel: the copies made
    crArgs,     \* canRun: the template and call arguments and the device
    crResult,   \* canRun: <<>> before the call, then <<the value returned>>
    cmpArgs,    \* compareEqual: DataT, a, b, size, tolerance, OpenMP threads
    cmpPc,      \* per thread of compareEqual: position in the loop body
    cmpI,       \* per thread: the loop variable i
    cmpRel,     \* per thread: relative_error of the current iteration
    isInf, isNaN, max_relative_error,
    maxHeld,    \* the values max_relative_error has held so far
    writeMutex, \* <<>> or <<the thread holding the mutex>>
    cmpResult,  \* <<>> before the return, then <<retval, max_relative_error>>
    vutCfg,     \* vectorUtilTest: grid, workgroup size, err of every thread
    vutPc,      \* per thread of vectorUtilTest: position in the kernel
    vutArrivals,\* per thread: number of synchronize_workgroup() calls made
    vutResult,  \* per workgroup: the __shared__ counter result
    vutLog,     \* per workgroup: the accesses to result, in order
    vutOut,     \* the buffer out
    vutWrites   \* the stores to out made: <<thread, index>>

vars == <<cfg, a, b, c, d, lds, pc, fragAcc, fragA, fragB, fragANext,
          fragBNext, fragC, addrA, addrB, endA, arrivals, trace, oobStores,
          launch, dPrev, tcfg, a_in, b_in, a_out, b_out, tpc, ttrace,
          crArgs, crResult, cmpArgs, cmpPc, cmpI, cmpRel, isInf, isNaN,
          max_relative_error, maxHeld, writeMutex, cmpResult, vutCfg, vutPc,
          vutArrivals, vutResult, vutLog, vutOut, vutWrites>>

regs == <<fragAcc, fragA, fragB, fragANext, fragBNext, fragC, addrA, addrB, endA>>
mmaVars == <<cfg, a, b, c, d, lds, pc, fragAcc, fragA, fragB, fragANext,
             fragBNext, fragC, addrA, addrB, endA, arrivals, trace, oobStores,
             launch, dPrev>>
coopVars == <<tcfg, a_in, b_in, a_out, b_out, tpc, ttrace>>
cmpVars == <<cmpArgs, cmpPc, cmpI, cmpRel, isInf, isNaN, max_relative_error,
             maxHeld, writeMutex, cmpResult>>
vutVars == <<vutCfg, vutPc, vutArrivals, vutResult, vutLog, vutOut, vutWrites>>
hostVars == <<crArgs, crResult, cmpVars, vutVars>>
globals == <<cfg, a, b, c, launch, dPrev, coopVars, hostVars>>

(***************************************************************************)
(* Per-wave values of mmaSyncLds.                                          *)
(***************************************************************************)
matrixCoordC(w) == matrixCoord(cfg.BlockM, cfg.BlockN, blockCoord(cfg, w))

\* if(get<0>(matrixCoordC) < m && get<1>(matrixCoordC) < n && BlockK < k)
Eligible(w) ==
    /\ matrixCoordC(w)[1] < cfg.m
    /\ matrixCoordC(w)[2] < cfg.n
    /\ cfg.BlockK < cfg.k

FragASz == FragASize(cfg.BlockM, cfg.BlockK)
FragBSz == FragBSize(cfg.BlockK, cfg.BlockN)

\* Variant: the LDS leading dimension of a single wave column.
ldLds_OneColumn == WaveSize
ldLds == WaveSize * workgroupDim(cfg)[2]
baseAddrLdsA == 0
\* Variant: the B region placed after a region sized by the B fragment.
baseAddrLdsB_FragB ==
    baseAddrLdsA + workgroupDim(cfg)[1] * FragLdsSize(FragBSz) * ldLds
baseAddrLdsB ==
    baseAddrLdsA + workgroupDim(cfg)[1] * FragLdsSize(FragASz) * ldLds
matrixCoordLdsA(w) == matrixCoord(FragASz, WaveSize, waveCoord(w))
matrixCoordLdsB(w) == matrixCoord(FragBSz, WaveSize, waveCoord(w))
\* Variant: every wave stages its A block at the base of the A region.
addrLdsA_Shared(w) == dataCoord(row_major, baseAddrLdsA, ldLds, <<0, 0>>)
addrLdsA(w) == dataCoord(row_major, baseAddrLdsA, ldLds, matrixCoordLdsA(w))
\* Variant: the B slot addressed from the base of the A region.
addrLdsB_BaseA(w) == dataCoord(row_major, baseAddrLdsA, ldLds, matrixCoordLdsB(w))
addrLdsB(w) == dataCoord(row_major, baseAddrLdsB, ldLds, matrixCoordLdsB(w))
\* Size of the dynamic shared memory of a workgroup, in elements.
ldsSize == workgroupDim(cfg)[1] * (FragASz + FragBSz) * ldLds

\* Variant: the increment of A taken along the rows.
incrA_Rows == dataOffset(cfg.LayoutA, cfg.lda, <<cfg.BlockK, 0>>)
incrA == dataOffset(cfg.LayoutA, cfg.lda, <<0, cfg.BlockK>>)
\* Variant: the increment of B taken along the columns.
incrB_Cols == dataOffset(cfg.LayoutB, cfg.ldb, <<0, cfg.BlockK>>)
incrB == dataOffset(cfg.LayoutB, cfg.ldb, <<cfg.BlockK, 0>>)
\* Variants: an end address one K-slice short; an end address that
\* forgets the per-slice increment.
EndAddrA_OneShort(pA) == pA + incrA * ((cfg.k \div cfg.BlockK) - 1)
EndAddrA_NoIncr(pA) == pA + (cfg.k \div cfg.BlockK)
\* Variant: an end address one K-slice too far.
EndAddrA_OneMore(pA) == pA + incrA * ((cfg.k \div cfg.BlockK) + 1)
\* auto endA = addrA + incrA * (k / BlockK);
EndAddrA(pA) == pA + incrA * (cfg.k \div cfg.BlockK)
\* Variant: the steady-state loop is never entered.
LoopCond_Never(pA, pEnd) == FALSE
\* while(addrA != endA)
LoopCond(pA, pEnd) == pA # pEnd
\* First address past the memory mapped around the buffer of A: a global
\* load at or beyond it faults and the wave makes no further step.
FaultAddr == 2 * (cfg.m * cfg.k)
\* Variant: the accumulation runs whatever alpha is.
AlphaTest_Always == TRUE
\* if(alpha)
AlphaTest == cfg.alpha # 0
\* Variant: C is loaded whatever beta is.
BetaTest_Always == TRUE
\* if(beta)
BetaTest == cfg.beta # 0

\* The LDS addresses of the wave's A slot and B slot.
SlotA(w) == LdsSlotAddrs(addrLdsA(w), ldLds, FragLdsSize(FragASz))
SlotB(w) == LdsSlotAddrs(addrLdsB(w), ldLds, FragLdsSize(FragBSz))

wgOf(w) == <<w[1], w[2]>>
\* An operation a wave issues: its name and the address it is given (for an
\* LDS access: the set of LDS addresses it touches).
Ev(op, at) == <<op, at>>
Emit(w, evs) == trace' = [trace EXCEPT ![w] = @ \o evs]

\* Contents of the output buffer before the launch.
dInitial(cf) == [x \in 0..(cf.m * cf.n - 1) |-> 100 + x]

(***************************************************************************)
(* test_load_store_matrix_d: every wave copies, for A, the blocks of its   *)
(* block row over the block columns of its workgroup and, for B, the       *)
(* blocks of its block column over the block rows of its workgroup, each   *)
(* block in cooperation with the waves that visit it.                      *)
(***************************************************************************)
\* The largest number of waves of a launch of the test kernel.
MaxCoopWaves == 4
\* BlockM = BlockN = BlockK of the instantiations of the test.
CoopBlocks == {1, 2}
CoopWgShapes == {<<1, 1>>, <<2, 1>>, <<1, 2>>, <<2, 2>>}
\* Contents of the freshly allocated output buffers.
Unwritten == -1

MakeTestCfg(B, la, lb, lc, wg, M, N) ==
    [BlockM |-> B, BlockN |-> B, BlockK |-> B,
     LayoutA |-> la, LayoutB |-> lb, LayoutC |-> lc,
     m |-> M, n |-> N,
     lda |-> IF la = row_major THEN N ELSE M,
     ldb |-> IF lb = row_major THEN N ELSE M,
     ldc |-> IF lc = row_major THEN N ELSE M,
     TBlockX |-> wg[1] * WaveSize, TBlockY |-> wg[2]]

\* MatrixUtil<Layout>::fill(mat, M, N): element (i, j) holds i * N + j.
MatrixFill(Layout, M, N) ==
    [x \in 0..(M * N - 1) |->
        IF Layout = row_major THEN x ELSE (x % M) * N + (x \div M)]

wgSize(cf) == workgroupDim(cf)
waveOffset(w) == waveCoord(w)
currentBlock(cf, w) == blockCoord(cf, w)
\* Variant: the origin taken to be the wave's own block.
originBlock_Current(cf, w) == currentBlock(cf, w)
originBlock(cf, w) ==
    <<currentBlock(cf, w)[1] - waveOffset(w)[1],
      currentBlock(cf, w)[2] - waveOffset(w)[2]>>
\* MappingUtil::blockCoordN(n), blockCoordM(m): the wave's block coordinate
\* with its column, its row replaced.
blockCoordN(cf, w, n) == <<blockCoord(cf, w)[1], n>>
blockCoordM(cf, w, m) == <<m, blockCoord(cf, w)[2]>>

\* The elements of a block a cooperating wave moves: the block is split
\* between the waveCount waves that visit it.
CoopShare(size, waveIndex, waveCount) ==
    {x \in 0..(size - 1) : x % waveCount = waveIndex}
CoopAddr(Layout, addr, ld, cols, x) ==
    dataCoord(Layout, addr, ld, <<x \div cols, x % cols>>)
\* wmma::load_matrix_coop_sync(frag, addr, ld)
load_matrix_coop_sync(Layout, buf, addr, ld, rows, cols, waveIndex, waveCount) ==
    [x \in CoopShare(rows * cols, waveIndex, waveCount) |->
        Rd(buf, CoopAddr(Layout, addr, ld, cols, x), Unwritten)]
\* wmma::store_matrix_coop_sync(addr, frag, ld): the buffer after the store.
store_matrix_coop_sync(Layout, buf, addr, ld, cols, frag) ==
    [y \in DOMAIN buf |->
        IF \E x \in DOMAIN frag : CoopAddr(Layout, addr, ld, cols, x) = y
        THEN frag[CHOOSE x \in DOMAIN frag : CoopAddr(Layout, addr, ld, cols, x) = y]
        ELSE buf[y]]

\* The test kernel is not launched.
CoopIdle ==
    /\ tcfg = MakeTestCfg(1, row_major, row_major, row_major, <<1, 1>>, 1, 1)
    /\ a_in = <<>> /\ b_in = <<>> /\ a_out = <<>> /\ b_out = <<>>
    /\ tpc = <<>> /\ ttrace = <<>>

(***************************************************************************)
(* canRun (samples/common.hpp): may a sample run with these block and      *)
(* thread block sizes on this device.  Its arguments are uint32_t, so the  *)
(* product TBlockX * TBlockY is taken modulo 2^32; 32-bit values are       *)
(* handled here as four 8-bit limbs, least significant first.              *)
(***************************************************************************)
Limbs(n) ==
    <<n % 256, (n \div 256) % 256, (n \div 65536) % 256, (n \div 16777216) % 256>>

MulTerm(x, y, i, k) == IF (k - i) \in 0..3 THEN x[i + 1] * y[k - i + 1] ELSE 0

RECURSIVE MulColumns(_, _, _, _)
MulColumns(x, y, k, carry) ==
    IF k > 7 THEN <<>>
    ELSE LET s == carry + MulTerm(x, y, 0, k) + MulTerm(x, y, 1, k)
                        + MulTerm(x, y, 2, k) + MulTerm(x, y, 3, k)
         IN  <<s % 256>> \o MulColumns(x, y, k + 1, s \div 256)

\* The product of two 32-bit values as an integer: eight limbs.
WideMul(x, y) == MulColumns(x, y, 0, 0)

\* The product as uint32_t arithmetic gives it: the low four limbs.
Mul32(x, y) == SubSeq(WideMul(x, y), 1, 4)

\* Comparisons of limb sequences with a value n below 2^16.
LimbsAtLeast(p, n) ==
    \/ \E i \in 3..Len(p) : p[i] # 0
    \/ p[2] * 256 + p[1] >= n
LimbsAtMost(p, n) ==
    /\ \A i \in 3..Len(p) : p[i] = 0
    /\ p[2] * 256 + p[1] <= n

\* hipWarpSize_t and the values getWarpSize() returns.
Wave32 == 32
Wave64 == 64
WarpSizes == {Wave32, Wave64}

\* The values getGCNArchId() returns.
Gfx9Archs == {"GFX908", "GFX90A", "GFX940", "GFX941", "GFX942"}
Gfx11Archs == {"GFX1100", "GFX1101", "GFX1102"}
ArchIds == Gfx9Archs \cup Gfx11Archs \cup {"NONE"}

\* The InputT a caller may instantiate canRun with; "uint8_t" stands for
\* a type none of the is_same_v tests names.
InputTypes == {"int8_t", "float8_t", "bfloat8_t", "float16_t", "hfloat16_t",
               "bfloat16_t", "float32_t", "xfloat32_t", "float64_t", "uint8_t"}

\* The block and thread block sizes a caller may pass.
BlockMNs == {<<16, 16>>, <<32, 32>>, <<16, 32>>}
BlockKs == {4, 8, 16, 32}
TBlockXs == {0, 16, 32, 64, 96, 128, 2048}
TBlockYs == {0, 1, 2, 4, 16, 32, 67108865}

IsGfx9(r) == r.ArchId \in Gfx9Archs
IsGfx11(r) == r.ArchId \in Gfx11Archs
IsGfx94x_Always(r) == TRUE
IsGfx94x(r) == r.ArchId \in {"GFX940", "GFX941", "GFX942"}
IsInputTFloat16(r) == r.InputT \in {"float16_t", "hfloat16_t"}
isBlockMN16(r) == r.BlockM = 16 /\ r.BlockN = 16
isBlockMN32(r) == r.BlockM = 32 /\ r.BlockN = 32

\* (BlockK >= q) && (BlockK % q == 0)
KFits(r, q) == r.BlockK >= q /\ r.BlockK % q = 0

\* TBlockX * TBlockY, as the uint32_t expression evaluates.
TBlockProduct(r) == Mul32(Limbs(r.TBlockX), Limbs(r.TBlockY))

\* Lines 220-229.
TBlockXTest(r) == r.TBlockX % r.WaveSize = 0
MinTBlockTest(r) == r.TBlockX >= r.WaveSize /\ r.TBlockY >= 1
ArchTest(r) == IsGfx9(r) \/ IsGfx11(r)
EnableRun(r) == TBlockXTest(r) /\ MinTBlockTest(r) /\ ArchTest(r)

\* Lines 238-370.
EnableGfx9(r) ==
    LET ArchTestGfx9 == IsGfx9(r)
        WaveSizeTest == r.WaveSize = Wave64
        TBlockTest == /\ LimbsAtLeast(TBlockProduct(r), Wave64)
                      /\ LimbsAtMost(TBlockProduct(r), 1024)
        InputTypesTest ==
            \/ r.InputT = "float8_t" \/ r.InputT = "bfloat8_t"
            \/ r.InputT = "int8_t" \/ IsInputTFloat16(r)
            \/ r.InputT = "bfloat16_t" \/ r.InputT = "float32_t"
            \/ r.InputT = "xfloat32_t" \/ r.InputT = "float64_t"
        F8XF32ArchTest ==
            \/ ~(r.InputT = "float8_t" \/ r.InputT = "bfloat8_t"
                  \/ r.InputT = "xfloat32_t")
            \/ IsGfx94x(r)
        F64ArchTest == r.InputT # "float64_t" \/ r.ArchId # "GFX908"
        I8BlockSizeTest ==
            \/ r.InputT # "int8_t"
            \/ (isBlockMN16(r) /\ KFits(r, 16))
            \/ (isBlockMN32(r) /\ KFits(r, 8))
        Gfx940I8BlockSizeTest ==
            \/ ~(r.InputT = "int8_t" /\ IsGfx94x(r))
            \/ (isBlockMN16(r) /\ KFits(r, 32))
            \/ (isBlockMN32(r) /\ KFits(r, 16))
        F8BlockSizeTest ==
            \/ ~(r.InputT = "float8_t" \/ r.InputT = "bfloat8_t")
            \/ (isBlockMN16(r) /\ KFits(r, 32))
            \/ (isBlockMN32(r) /\ KFits(r, 16))
        F16BlockSizeTest ==
            \/ ~(IsInputTFloat16(r) \/ r.InputT = "bfloat16_t")
            \/ (isBlockMN16(r) /\ KFits(r, 16))
            \/ (isBlockMN32(r) /\ KFits(r, 8))
        Gfx908BF16BlockSizeTest ==
            \/ ~(r.InputT = "bfloat16_t" /\ r.ArchId = "GFX908")
            \/ (isBlockMN16(r) /\ KFits(r, 8))
            \/ (isBlockMN32(r) /\ KFits(r, 4))
        F32BlockSizeTest ==
            \/ r.InputT # "float32_t"
            \/ (isBlockMN16(r) /\ KFits(r, 4))
            \/ (isBlockMN32(r) /\ KFits(r, 2))
        XF32BlockSizeTest ==
            \/ r.InputT # "xfloat32_t"
            \/ (isBlockMN16(r) /\ KFits(r, 8))
            \/ (isBlockMN32(r) /\ KFits(r, 4))
        F64BlockSizeTest ==
            \/ r.InputT # "float64_t"
            \/ (isBlockMN16(r) /\ KFits(r, 4))
    IN  /\ ArchTestGfx9 /\ WaveSizeTest /\ TBlockTest /\ InputTypesTest
        /\ F8XF32ArchTest /\ F64ArchTest /\ I8BlockSizeTest
        /\ Gfx940I8BlockSizeTest /\ F8BlockSizeTest /\ F16BlockSizeTest
        /\ Gfx908BF16BlockSizeTest /\ F32BlockSizeTest /\ XF32BlockSizeTest
        /\ F64BlockSizeTest

\* Lines 372-416.
EnableGfx11(r) ==
    LET ArchTestGfx11 == IsGfx11(r)
        WaveSizeTest == r.WaveSize = Wave32
        TBlockTest == /\ LimbsAtLeast(TBlockProduct(r), Wave32)
                      /\ LimbsAtMost(TBlockProduct(r), 1024)
        InputTypesTest ==
            r.InputT = "int8_t" \/ IsInputTFloat16(r) \/ r.InputT = "bfloat16_t"
        I8BlockSizeTest ==
            r.InputT # "int8_t" \/ (isBlockMN16(r) /\ KFits(r, 16))
        F16BlockSizeTest ==
            \/ ~(IsInputTFloat16(r) \/ r.InputT = "bfloat16_t")
            \/ (isBlockMN16(r) /\ KFits(r, 16))
    IN  /\ ArchTestGfx11 /\ WaveSizeTest /\ TBlockTest /\ InputTypesTest
        /\ I8BlockSizeTest /\ F16BlockSizeTest

\* Line 418.
canRun(r) == EnableRun(r) /\ (EnableGfx9(r) \/ EnableGfx11(r))

(***************************************************************************)
(* compareEqual (samples/common.hpp): element-wise comparison of two       *)
(* arrays by relative error, as an OpenMP parallel loop.  A DataT value    *)
(* is <<kind, n>> with kind "fin" (the integer n), "inf" or "nan"; a       *)
(* double that is a quotient is <<kind, n, d>>, the fraction n / d in      *)
(* lowest terms.                                                           *)
(***************************************************************************)
Fin(n) == <<"fin", n>>
Inf == <<"inf", 0>>
NaN == <<"nan", 0>>
isinf(x) == x[1] = "inf"
isnan(x) == x[1] = "nan"
fabs(n) == IF n < 0 THEN -n ELSE n

RECURSIVE GCD(_, _)
GCD(x, y) == IF y = 0 THEN x ELSE GCD(y, x % y)
Frac(n, den) == <<"fin", n \div GCD(n, den), den \div GCD(n, den)>>

\* n1/d1 < n2/d2 for fractions that are not negative, by continued
\* fractions (no product is formed).
RECURSIVE FracLT(_, _, _, _)
FracLT(n1, d1, n2, d2) ==
    LET q1 == n1 \div d1
        q2 == n2 \div d2
        r1 == n1 % d1
        r2 == n2 % d2
    IN  IF q1 # q2 THEN q1 < q2
        ELSE IF r2 = 0 THEN FALSE
        ELSE IF r1 = 0 THEN TRUE
        ELSE FracLT(d2, r2, d1, r1)
\* x > y on finite quotients.
Greater(x, y) == FracLT(y[2], y[3], x[2], x[3])

\* static_cast<float>: 24 significant bits, round to nearest, ties to even.
RECURSIVE FloatSpacing(_, _)
FloatSpacing(m, s) == IF m \div s < 16777216 THEN s ELSE FloatSpacing(m, 2 * s)
RoundToFloat(n) ==
    LET m == fabs(n)
        s == FloatSpacing(m, 1)
        q == m \div s
        r == m % s
        up == (2 * r > s) \/ (2 * r = s /\ q % 2 = 1)
        mag == (IF up THEN q + 1 ELSE q) * s
    IN  IF n < 0 THEN -mag ELSE mag
\* Line 524: static_cast<double>(static_cast<float>(val)).
toDouble(val) == IF val[1] = "fin" THEN Fin(RoundToFloat(val[2])) ELSE val

\* Lines 535-536 in IEEE arithmetic (inf - inf is NaN).
Numerator(A, B) ==
    IF isnan(A) \/ isnan(B) THEN NaN
    ELSE IF isinf(A) /\ isinf(B) THEN NaN
    ELSE IF isinf(A) \/ isinf(B) THEN Inf
    ELSE Fin(fabs(A[2] - B[2]))
Divisor(A, B) ==
    IF isnan(A) \/ isnan(B) THEN NaN
    ELSE IF isinf(A) \/ isinf(B) THEN Inf
    ELSE Fin(fabs(A[2]) + fabs(B[2]) + 1)
\* Line 545, for a numerator and a divisor that are not infinite.
Quotient(num, div) ==
    IF isnan(num) \/ isnan(div) THEN <<"nan", 0, 1>> ELSE Frac(num[2], div[2])

\* The element types compared, and std::numeric_limits<DataT>::epsilon()
\* converted by toDouble: 0 for int32_t, 2^-23 for float32_t.
CmpTypes == {"int32_t", "float32_t"}
Epsilon(DataT) == IF DataT = "int32_t" THEN Frac(0, 1) ELSE Frac(1, 8388608)
EpsTimes(DataT, tolerance) ==
    Frac(Epsilon(DataT)[2] * tolerance, Epsilon(DataT)[3])

\* Largest array compared and most OpenMP threads.
MaxCmpSize == 3
MaxThreads == 2

\* The element pairs <<a[i], b[i]>> explored for each type.
PairChoices(DataT) ==
    IF DataT = "int32_t"
    THEN {<<Fin(0), Fin(0)>>, <<Fin(1), Fin(3)>>, <<Fin(1), Fin(2)>>,
          <<Fin(-2), Fin(-2)>>, <<Fin(16777217), Fin(16777216)>>}
    ELSE {<<Fin(0), Fin(0)>>, <<Fin(1), Fin(3)>>, <<Fin(1), Fin(2)>>,
          <<Fin(16777216), Fin(16777218)>>, <<Inf, Fin(1)>>, <<Fin(1), NaN>>}

\* The iterations of thread t under the static schedule of the loop.
ChunkSize(r) == (r.size + r.threads - 1) \div r.threads
ChunkLo(r, t) == IF t * ChunkSize(r) < r.size THEN t * ChunkSize(r) ELSE r.size
ChunkHi(r, t) ==
    IF (t + 1) * ChunkSize(r) < r.size THEN (t + 1) * ChunkSize(r) ELSE r.size
CmpThreads(r) == 0..(r.threads - 1)

\* The relative_error iteration i computes: "inf" stands for the branch
\* taken at line 538.
RelativeErrorAt(r, i) ==
    LET numerator == Numerator(toDouble(r.a[i + 1]), toDouble(r.b[i + 1]))
        divisor == Divisor(toDouble(r.a[i + 1]), toDouble(r.b[i + 1]))
    IN  IF isinf(numerator) \/ isinf(divisor) THEN <<"inf", 0, 1>>
        ELSE Quotient(numerator, divisor)

\* Line 557, the comparison repeated under the mutex.
DoubleCheck_Skip(relative_error, current) == TRUE
DoubleCheck(relative_error, current) == Greater(relative_error, current)

\* compareEqual is not being called.
CmpIdle ==
    /\ cmpArgs = [DataT |-> "int32_t", a |-> <<>>, b |-> <<>>, size |-> 0,
                  tolerance |-> 10, threads |-> 1]
    /\ cmpPc = <<>> /\ cmpI = <<>> /\ cmpRel = <<>>
    /\ isInf = FALSE /\ isNaN = FALSE
    /\ max_relative_error = Frac(0, 1)
    /\ maxHeld = {}
    /\ writeMutex = <<>>
    /\ cmpResult = <<>>
(***************************************************************************)
(* vectorUtilTest (unnamed/part_002): every thread runs the vector tests   *)
(* and adds its error flag to a counter in shared memory; one thread of    *)
(* the launch writes the verdict.  A thread is <<block, thread>>, block 0  *)
(* being blockIdx (0,0,0) and thread 0 threadIdx (0,0,0).                  *)
(***************************************************************************)
ERROR_VALUE == 7
SUCCESS_VALUE == 0
\* Largest grid and largest workgroup launched.
MaxVutBlocks == 2
MaxVutThreads == 2
\* What the shared counter and the output may hold before the kernel.
SharedGarbage == {0, 3}
OutInitial == <<41, 42>>

VutThreads(cf) == (0..(cf.blocks - 1)) \X (0..(cf.threads - 1))
VutBlocks(cf) == 0..(cf.blocks - 1)

\* Variant: synchronize_workgroup() lets every thread through at once.
VutBarrierOpen_None(t, n) == TRUE
\* synchronize_workgroup(): a thread leaves its n-th barrier once every
\* thread of its workgroup has arrived at it.
VutBarrierOpen(t, n) ==
    \A u \in VutThreads(vutCfg) : u[1] = t[1] => vutArrivals[u] >= n

\* vectorUtilTest is not launched.
VutIdle ==
    /\ vutCfg = [blocks |-> 1, threads |-> 1, err |-> <<>>]
    /\ vutPc = <<>> /\ vutArrivals = <<>> /\ vutResult = <<>>
    /\ vutLog = <<>> /\ vutOut = OutInitial /\ vutWrites = {}
\* canRun is not being called.
CanRunIdle ==
    /\ crArgs = [InputT |-> "int8_t", BlockM |-> 16, BlockN |-> 16,
                 BlockK |-> 16, TBlockX |-> 64, TBlockY |-> 1,
                 WaveSize |-> Wave64, ArchId |-> "NONE"]
    /\ crResult = <<>>

\* The host is calling neither canRun nor compareEqual, and the vector
\* test is not launched.
HostIdle == CanRunIdle /\ CmpIdle /\ VutIdle

(***************************************************************************)
(* Initial state: the launch of one kernel.                                *)
(***************************************************************************)
InitLaunch ==
    /\ \E s \in BlockShapes, la \in Layouts, lb \in Layouts, lc \in Layouts,
          ld \in Layouts, wg \in WgShapes, alpha \in Alphas, beta \in Betas,
          seed \in 0..MaxSeed :
         \E m \in DimChoices(s[1]), n \in DimChoices(s[2]), k \in KChoices(s[3]) :
          \E g \in (IF m % s[1] = 0 /\ n % s[2] = 0 THEN {0} ELSE Garbage) :
            /\ cfg = MakeCfg(s, la, lb, lc, ld, m, n, k, wg, alpha, beta, seed, g)
            /\ Cardinality(Waves(cfg)) <= MaxWaves

\* The buffers and the waves at the launch cfg describes.
InitState ==
    /\ a = fillRand(cfg.seed, cfg.m, cfg.k)
    /\ b = fillRand(cfg.seed + 1, cfg.k, cfg.n)
    /\ c = fillRand(cfg.seed + 2, cfg.m, cfg.n)
    /\ d = dInitial(cfg)
    /\ lds = [g \in Workgroups(cfg) |-> [y \in 0..(ldsSize - 1) |-> 99]]
    /\ pc = [w \in Waves(cfg) |-> "check"]
    /\ fragAcc = [w \in Waves(cfg) |-> fill_fragment(0, 0)]
    /\ fragA = [w \in Waves(cfg) |-> fill_fragment(0, 0)]
    /\ fragB = [w \in Waves(cfg) |-> fill_fragment(0, 0)]
    /\ fragANext = [w \in Waves(cfg) |-> fill_fragment(0, 0)]
    /\ fragBNext = [w \in Waves(cfg) |-> fill_fragment(0, 0)]
    /\ fragC = [w \in Waves(cfg) |-> fill_fragment(0, 0)]
    /\ addrA = [w \in Waves(cfg) |-> 0]
    /\ addrB = [w \in Waves(cfg) |-> 0]
    /\ endA = [w \in Waves(cfg) |-> 0]
    /\ arrivals = [w \in Waves(cfg) |-> 0]
    /\ trace = [w \in Waves(cfg) |-> <<>>]
    /\ oobStores = {}
    /\ launch = 1
    /\ dPrev = dInitial(cfg)

Init == InitLaunch /\ InitState /\ CoopIdle /\ HostIdle

(***************************************************************************)
(* The kernel, one action per step of a wave.                              *)
(***************************************************************************)
\* Lines 94-103: eligibility check, accumulator fill, test of alpha.
Check(w) ==
    /\ pc[w] = "check"
    /\ IF Eligible(w)
       THEN /\ fragAcc' = [fragAcc EXCEPT ![w] =
                            fill_fragment(cfg.BlockM * cfg.BlockN, ComputeT(0))]
            /\ Emit(w, <<Ev("fillAcc", 0)>>)
            /\ pc' = [pc EXCEPT ![w] = IF AlphaTest THEN "prime" ELSE "epilogue"]
       ELSE /\ pc' = [pc EXCEPT ![w] = "done"]
            /\ UNCHANGED <<fragAcc, trace>>
    /\ UNCHANGED <<globals, d, lds, fragA, fragB, fragANext, fragBNext, fragC,
                   addrA, addrB, endA, arrivals, oobStores>>

\* Lines 106-147: starting addresses, the first global loads, their staging
\* in LDS, the address increments, the end address, the first advance and
\* the first test of the loop condition.
Prime(w) ==
    /\ pc[w] = "prime"
    /\ LET pA == dataCoord(cfg.LayoutA, 0, cfg.lda, <<matrixCoordC(w)[1], 0>>)
           pB == dataCoord(cfg.LayoutB, 0, cfg.ldb, <<0, matrixCoordC(w)[2]>>)
           fA == load_matrix_sync(cfg.LayoutA, a, pA, cfg.lda,
                                  cfg.BlockM, cfg.BlockK, cfg.garbage)
           fB == load_matrix_sync(cfg.LayoutB, b, pB, cfg.ldb,
                                  cfg.BlockK, cfg.BlockN, cfg.garbage)
           pEnd == EndAddrA(pA)
       IN  /\ fragA' = [fragA EXCEPT ![w] = fA]
           /\ fragB' = [fragB EXCEPT ![w] = fB]
           /\ lds' = [lds EXCEPT ![wgOf(w)] =
                 store_matrix_sync_lds(
                     store_matrix_sync_lds(@, addrLdsA(w), ldLds,
                                           FragLdsSize(FragASz), fA),
                     addrLdsB(w), ldLds, FragLdsSize(FragBSz), fB)]
           /\ Emit(w, <<Ev("loadA", pA), Ev("loadB", pB),
                        Ev("storeLdsA", SlotA(w)), Ev("storeLdsB", SlotB(w))>>)
           /\ endA' = [endA EXCEPT ![w] = pEnd]
           /\ addrA' = [addrA EXCEPT ![w] = pA + incrA]
           /\ addrB' = [addrB EXCEPT ![w] = pB + incrB]
           /\ pc' = [pc EXCEPT ![w] = IF LoopCond(pA + incrA, pEnd) THEN "sync" ELSE "drain"]
    /\ UNCHANGED <<globals, d, fragAcc, fragANext, fragBNext, fragC, arrivals,
                   oobStores>>

\* wmma::synchronize_workgroup(): a wave that has arrived leaves the barrier
\* once every wave of its workgroup that has not ended has arrived as often.
BarrierOpen(w) ==
    \A v \in Waves(cfg) :
        SameWorkgroup(v, w) => (pc[v] = "done" \/ arrivals[v] >= arrivals[w])

\* Line 152: arrival at the workgroup barrier.
Sync(w) ==
    /\ pc[w] = "sync"
    /\ arrivals' = [arrivals EXCEPT ![w] = @ + 1]
    /\ Emit(w, <<Ev("barrier", 0)>>)
    /\ pc' = [pc EXCEPT ![w] = "wait"]
    /\ UNCHANGED <<globals, d, lds, regs, oobStores>>

\* Line 152: release from the workgroup barrier.
Pass(w) ==
    /\ pc[w] = "wait"
    /\ BarrierOpen(w)
    /\ pc' = [pc EXCEPT ![w] = "loop"]
    /\ UNCHANGED <<globals, d, lds, regs, arrivals, trace, oobStores>>

\* Variant: the multiply-accumulate issued before the prefetch.
LoopOps_MmaFirst(w) ==
    <<Ev("loadLdsA", SlotA(w)), Ev("loadLdsB", SlotB(w)), Ev("mma", 0),
      Ev("loadA", addrA[w]), Ev("loadB", addrB[w])>>
\* Lines 153-163 in program order.
LoopOps(w) ==
    <<Ev("loadLdsA", SlotA(w)), Ev("loadLdsB", SlotB(w)),
      Ev("loadA", addrA[w]), Ev("loadB", addrB[w]), Ev("mma", 0)>>

\* Lines 153-163: read back the staged blocks, start the global loads of the
\* next blocks, multiply-accumulate the staged blocks.
LoopBody(w) ==
    /\ pc[w] = "loop"
    /\ addrA[w] < FaultAddr
    /\ LET fA == load_matrix_sync_lds(lds[wgOf(w)], addrLdsA(w), ldLds,
                                      FragLdsSize(FragASz))
           fB == load_matrix_sync_lds(lds[wgOf(w)], addrLdsB(w), ldLds,
                                      FragLdsSize(FragBSz))
       IN  /\ fragA' = [fragA EXCEPT ![w] = fA]
           /\ fragB' = [fragB EXCEPT ![w] = fB]
           /\ fragANext' = [fragANext EXCEPT ![w] =
                 load_matrix_sync(cfg.LayoutA, a, addrA[w], cfg.lda,
                                  cfg.BlockM, cfg.BlockK, cfg.garbage)]
           /\ fragBNext' = [fragBNext EXCEPT ![w] =
                 load_matrix_sync(cfg.LayoutB, b, addrB[w], cfg.ldb,
                                  cfg.BlockK, cfg.BlockN, cfg.garbage)]
           /\ fragAcc' = [fragAcc EXCEPT ![w] = mma_sync(cfg, fA, fB, @)]
    /\ Emit(w, LoopOps(w))
    /\ pc' = [pc EXCEPT ![w] = "storeLds"]
    /\ UNCHANGED <<globals, d, lds, fragC, addrA, addrB, endA, arrivals,
                   oobStores>>

\* Lines 165-170 and 147: overwrite the LDS slots with the prefetched blocks,
\* advance the addresses, test the loop condition.
StoreLds(w) ==
    /\ pc[w] = "storeLds"
    /\ lds' = [lds EXCEPT ![wgOf(w)] =
          store_matrix_sync_lds(
              store_matrix_sync_lds(@, addrLdsA(w), ldLds, FragLdsSize(FragASz),
                                    fragANext[w]),
              addrLdsB(w), ldLds, FragLdsSize(FragBSz), fragBNext[w])]
    /\ Emit(w, <<Ev("storeLdsA", SlotA(w)), Ev("storeLdsB", SlotB(w))>>)
    /\ addrA' = [addrA EXCEPT ![w] = @ + incrA]
    /\ addrB' = [addrB EXCEPT ![w] = @ + incrB]
    /\ pc' = [pc EXCEPT ![w] = IF LoopCond(addrA'[w], endA[w]) THEN "sync" ELSE "drain"]
    /\ UNCHANGED <<globals, d, fragAcc, fragA, fragB, fragANext, fragBNext,
                   fragC, endA, arrivals, oobStores>>

\* Lines 173-175: the last block.
Drain(w) ==
    /\ pc[w] = "drain"
    /\ fragA' = [fragA EXCEPT ![w] =
          load_matrix_sync_lds(lds[wgOf(w)], addrLdsA(w), ldLds, FragLdsSize(FragASz))]
    /\ fragB' = [fragB EXCEPT ![w] =
          load_matrix_sync_lds(lds[wgOf(w)], addrLdsB(w), ldLds, FragLdsSize(FragBSz))]
    /\ fragAcc' = [fragAcc EXCEPT ![w] = mma_sync(cfg, fragA'[w], fragB'[w], @)]
    /\ Emit(w, <<Ev("loadLdsA", SlotA(w)), Ev("loadLdsB", SlotB(w)),
                 Ev("mma", 0)>>)
    /\ pc' = [pc EXCEPT ![w] = "epilogue"]
    /\ UNCHANGED <<globals, d, lds, fragANext, fragBNext, fragC,
                   addrA, addrB, endA, arrivals, oobStores>>

\* Lines 194-197: fragC.x[i] = OutputT(alpha * ComputeT(fragAcc.x[i])
\*                                     + beta * ComputeT(fragC.x[i]))
Combine(alpha, beta, acc, fc) ==
    [x \in DOMAIN fc |->
        OutputT(alpha * ComputeT(acc[x]) + beta * ComputeT(fc[x]))]

\* Lines 179-190: fragC is zero-filled and, if beta, loaded from C.
LoadedC(w) ==
    IF BetaTest
    THEN load_matrix_sync_acc(cfg.LayoutC, c,
                              dataCoord(cfg.LayoutC, 0, cfg.ldc, matrixCoordC(w)),
                              cfg.ldc, cfg.BlockM, cfg.BlockN, cfg.garbage)
    ELSE fill_fragment(cfg.BlockM * cfg.BlockN, OutputT(0))

\* Variant: D is stored before C is loaded.
EpilogueOps_StoreFirst(w, addrC, addrD) ==
    <<Ev("storeD", addrD), Ev("fillC", 0)>>
        \o (IF BetaTest THEN <<Ev("loadC", addrC)>> ELSE <<>>)
\* Lines 179-207 in program order: fill_fragment(fragC), the load of C
\* under if(beta), the store of D.
EpilogueOps(w, addrC, addrD) ==
    <<Ev("fillC", 0)>>
        \o (IF BetaTest THEN <<Ev("loadC", addrC)>> ELSE <<>>)
        \o <<Ev("storeD", addrD)>>

\* Lines 179-207: load of C, D = alpha * accumAB + beta * C, store of D.
Epilogue(w) ==
    /\ pc[w] = "epilogue"
    /\ LET addrC == dataCoord(cfg.LayoutC, 0, cfg.ldc, matrixCoordC(w))
           addrD == dataCoord(cfg.LayoutD, 0, cfg.ldd, matrixCoordC(w))
           res == Combine(cfg.alpha, cfg.beta, fragAcc[w], LoadedC(w))
       IN  /\ fragC' = [fragC EXCEPT ![w] = res]
           /\ d' = store_matrix_sync_acc(cfg.LayoutD, d, addrD, cfg.ldd,
                                         cfg.BlockM, cfg.BlockN, res)
           /\ oobStores' = oobStores \cup
                 (BlockAddrs(cfg.LayoutD, addrD, cfg.ldd, cfg.BlockM, cfg.BlockN)
                    \ DOMAIN d)
           /\ Emit(w, EpilogueOps(w, addrC, addrD))
    /\ pc' = [pc EXCEPT ![w] = "done"]
    /\ UNCHANGED <<globals, lds, fragAcc, fragA, fragB, fragANext, fragBNext,
                   addrA, addrB, endA, arrivals>>

Next ==
    \/ \E w \in Waves(cfg) : Check(w)
    \/ \E w \in Waves(cfg) : Prime(w)
    \/ \E w \in Waves(cfg) : Sync(w)
    \/ \E w \in Waves(cfg) : Pass(w)
    \/ \E w \in Waves(cfg) : LoopBody(w)
    \/ \E w \in Waves(cfg) : StoreLds(w)
    \/ \E w \in Waves(cfg) : Drain(w)
    \/ \E w \in Waves(cfg) : Epilogue(w)

Spec == Init /\ [][Next]_vars

\* The launches with B, C and D row-major (the control flow of a wave reads
\* no layout but that of A), every wave that can take a step eventually
\* taking one.
InitLive ==
    /\ Init
    /\ cfg.LayoutB = row_major /\ cfg.LayoutC = row_major /\ cfg.LayoutD = row_major
LiveSpec == InitLive /\ [][Next]_vars /\ WF_vars(Next)

\* synchronize_workgroup() treated as a no-op: a wave leaves the barrier
\* without waiting for the other waves of its workgroup.
PassNoBarrier(w) ==
    /\ pc[w] = "wait"
    /\ pc' = [pc EXCEPT ![w] = "loop"]
    /\ UNCHANGED <<globals, d, lds, regs, arrivals, trace, oobStores>>

NextNoBarrier ==
    \/ \E w \in Waves(cfg) : Check(w)
    \/ \E w \in Waves(cfg) : Prime(w)
    \/ \E w \in Waves(cfg) : Sync(w)
    \/ \E w \in Waves(cfg) : PassNoBarrier(w)
    \/ \E w \in Waves(cfg) : LoopBody(w)
    \/ \E w \in Waves(cfg) : StoreLds(w)
    \/ \E w \in Waves(cfg) : Drain(w)
    \/ \E w \in Waves(cfg) : Epilogue(w)

NoBarrierSpec == Init /\ [][NextNoBarrier]_vars

\* A second launch of the kernel with the same arguments and buffers, d
\* holding what the first launch left in it.  The dynamic shared memory is
\* not initialised by a launch.
Relaunch ==
    /\ launch = 1
    /\ \A w \in Waves(cfg) : pc[w] = "done"
    /\ launch' = 2
    /\ dPrev' = d
    /\ pc' = [w \in Waves(cfg) |-> "check"]
    /\ fragAcc' = [w \in Waves(cfg) |-> fill_fragment(0, 0)]
    /\ fragA' = [w \in Waves(cfg) |-> fill_fragment(0, 0)]
    /\ fragB' = [w \in Waves(cfg) |-> fill_fragment(0, 0)]
    /\ fragANext' = [w \in Waves(cfg) |-> fill_fragment(0, 0)]
    /\ fragBNext' = [w \in Waves(cfg) |-> fill_fragment(0, 0)]
    /\ fragC' = [w \in Waves(cfg) |-> fill_fragment(0, 0)]
    /\ addrA' = [w \in Waves(cfg) |-> 0]
    /\ addrB' = [w \in Waves(cfg) |-> 0]
    /\ endA' = [w \in Waves(cfg) |-> 0]
    /\ arrivals' = [w \in Waves(cfg) |-> 0]
    /\ trace' = [w \in Waves(cfg) |-> <<>>]
    /\ oobStores' = {}
    /\ UNCHANGED <<cfg, a, b, c, d, lds, coopVars, hostVars>>

\* Two launches in a row, with A, B and C row-major.
InitTwice ==
    /\ Init
    /\ cfg.LayoutA = row_major /\ cfg.LayoutB = row_major /\ cfg.LayoutC = row_major
NextTwice ==
    \/ Next
    \/ Relaunch
TwiceSpec == InitTwice /\ [][NextTwice]_vars

(***************************************************************************)
(* The test kernel, one action per iteration of a wave's loops.            *)
(***************************************************************************)
\* The launches of the test: M and N multiples of the workgroup's tile
\* footprint, every layout combination.
InitCoop ==
    /\ \E B \in CoopBlocks, la \in Layouts, lb \in Layouts, lc \in Layouts,
          wg \in CoopWgShapes, qm \in 1..2, qn \in 1..2 :
         /\ tcfg = MakeTestCfg(B, la, lb, lc, wg, qm * B * wg[1], qn * B * wg[2])
         /\ Cardinality(Waves(tcfg)) <= MaxCoopWaves
    /\ a_in = MatrixFill(tcfg.LayoutA, tcfg.m, tcfg.n)
    /\ b_in = MatrixFill(tcfg.LayoutB, tcfg.m, tcfg.n)
    /\ a_out = [x \in 0..(tcfg.m * tcfg.n - 1) |-> Unwritten]
    /\ b_out = [x \in 0..(tcfg.m * tcfg.n - 1) |-> Unwritten]
    /\ tpc = [w \in Waves(tcfg) |-> <<"A", 0>>]
    /\ ttrace = [w \in Waves(tcfg) |-> <<>>]
    /\ cfg = MakeCfg(<<WaveSize, WaveSize, 1>>, row_major, row_major, row_major,
                     row_major, WaveSize, WaveSize, 2, <<1, 1>>, 0, 0, 0, 0)
    /\ InitState
    /\ HostIdle

\* Lines 69-81: one iteration of the loop over the block columns of the
\* workgroup; A is shared by the waves of one wave row.
CopyA(w) ==
    /\ tpc[w][1] = "A"
    /\ LET i == tpc[w][2]
           blockCoordV == blockCoordN(tcfg, w, originBlock(tcfg, w)[2] + i)
           matrixCoordV == matrixCoord(tcfg.BlockM, tcfg.BlockN, blockCoordV)
           readA == dataCoord(tcfg.LayoutA, 0, tcfg.lda, matrixCoordV)
           writeA == dataCoord(tcfg.LayoutA, 0, tcfg.lda, matrixCoordV)
           fragAV == load_matrix_coop_sync(tcfg.LayoutA, a_in, readA, tcfg.lda,
                                           tcfg.BlockM, tcfg.BlockK,
                                           waveOffset(w)[2], wgSize(tcfg)[2])
       IN  /\ a_out' = store_matrix_coop_sync(tcfg.LayoutA, a_out, writeA,
                                              tcfg.lda, tcfg.BlockK, fragAV)
           /\ ttrace' = [ttrace EXCEPT ![w] =
                            Append(@, <<"A", blockCoordV, readA, writeA>>)]
           /\ tpc' = [tpc EXCEPT ![w] =
                        IF i + 1 < wgSize(tcfg)[2] THEN <<"A", i + 1>> ELSE <<"B", 0>>]
    /\ UNCHANGED <<mmaVars, hostVars, tcfg, a_in, b_in, b_out>>

\* Lines 84-96: one iteration of the loop over the block rows of the
\* workgroup; B is shared by the waves of one wave column.
CopyB(w) ==
    /\ tpc[w][1] = "B"
    /\ LET i == tpc[w][2]
           blockCoordV == blockCoordM(tcfg, w, originBlock(tcfg, w)[1] + i)
           matrixCoordV == matrixCoord(tcfg.BlockM, tcfg.BlockN, blockCoordV)
           readB == dataCoord(tcfg.LayoutB, 0, tcfg.ldb, matrixCoordV)
           writeB == dataCoord(tcfg.LayoutB, 0, tcfg.ldb, matrixCoordV)
           fragBV == load_matrix_coop_sync(tcfg.LayoutB, b_in, readB, tcfg.ldb,
                                           tcfg.BlockK, tcfg.BlockN,
                                           waveOffset(w)[1], wgSize(tcfg)[1])
       IN  /\ b_out' = store_matrix_coop_sync(tcfg.LayoutB, b_out, writeB,
                                              tcfg.ldb, tcfg.BlockN, fragBV)
           /\ ttrace' = [ttrace EXCEPT ![w] =
                            Append(@, <<"B", blockCoordV, readB, writeB>>)]
           /\ tpc' = [tpc EXCEPT ![w] =
                        IF i + 1 < wgSize(tcfg)[1] THEN <<"B", i + 1>> ELSE <<"end", 0>>]
    /\ UNCHANGED <<mmaVars, hostVars, tcfg, a_in, b_in, a_out>>

NextCoop ==
    \/ \E w \in Waves(tcfg) : CopyA(w)
    \/ \E w \in Waves(tcfg) : CopyB(w)

CoopSpec == InitCoop /\ [][NextCoop]_vars

(***************************************************************************)
(* A call of canRun on some device.                                        *)
(***************************************************************************)
\* No kernel of the sample is running while the host decides.
MmaIdle ==
    /\ cfg = MakeCfg(<<WaveSize, WaveSize, 1>>, row_major, row_major, row_major,
                     row_major, WaveSize, WaveSize, 2, <<1, 1>>, 0, 0, 0, 0)
    /\ InitState

InitCanRun ==
    /\ \E t \in InputTypes, mn \in BlockMNs, bk \in BlockKs, tx \in TBlockXs,
          ty \in TBlockYs, ws \in WarpSizes, arch \in ArchIds :
         crArgs = [InputT |-> t, BlockM |-> mn[1], BlockN |-> mn[2],
                   BlockK |-> bk, TBlockX |-> tx, TBlockY |-> ty,
                   WaveSize |-> ws, ArchId |-> arch]
    /\ crResult = <<>>
    /\ CmpIdle /\ VutIdle
    /\ MmaIdle
    /\ CoopIdle

CallCanRun ==
    /\ crResult = <<>>
    /\ crResult' = <<canRun(crArgs)>>
    /\ UNCHANGED <<mmaVars, coopVars, vutVars, cmpVars, crArgs>>

NextCanRun == CallCanRun

CanRunSpec == InitCanRun /\ [][NextCanRun]_vars

(***************************************************************************)
(* A call of compareEqual, one action per step of a thread that another    *)
(* thread can observe.                                                     *)
(***************************************************************************)
InitCompare ==
    /\ \E DataT \in CmpTypes, size \in 0..MaxCmpSize, threads \in 1..MaxThreads :
         \E ab \in [1..size -> PairChoices(DataT)] :
            cmpArgs = [DataT |-> DataT, a |-> [i \in 1..size |-> ab[i][1]],
                       b |-> [i \in 1..size |-> ab[i][2]], size |-> size,
                       tolerance |-> 10, threads |-> threads]
    /\ cmpI = [t \in CmpThreads(cmpArgs) |-> ChunkLo(cmpArgs, t)]
    /\ cmpPc = [t \in CmpThreads(cmpArgs) |->
                  IF ChunkLo(cmpArgs, t) < ChunkHi(cmpArgs, t) THEN "body" ELSE "done"]
    /\ cmpRel = [t \in CmpThreads(cmpArgs) |-> Frac(0, 1)]
    /\ isInf = FALSE /\ isNaN = FALSE
    /\ max_relative_error = Frac(0, 1)
    /\ maxHeld = {Frac(0, 1)}
    /\ writeMutex = <<>>
    /\ cmpResult = <<>>
    /\ CanRunIdle /\ VutIdle /\ MmaIdle /\ CoopIdle

\* Lines 533-552: the body up to the comparison made outside the mutex.
\* That read of max_relative_error races with the writes at line 559: it
\* returns the current value or one the variable held before.
CmpBody(t) ==
    /\ cmpPc[t] = "body"
    /\ LET relative_error == RelativeErrorAt(cmpArgs, cmpI[t])
       IN  \/ /\ relative_error[1] = "inf"
              /\ isInf' = TRUE
              /\ cmpPc' = [cmpPc EXCEPT ![t] = "flags"]
              /\ UNCHANGED <<isNaN, cmpRel>>
           \/ /\ relative_error[1] = "nan"
              /\ isNaN' = TRUE
              /\ cmpPc' = [cmpPc EXCEPT ![t] = "flags"]
              /\ UNCHANGED <<isInf, cmpRel>>
           \/ /\ relative_error[1] = "fin"
              /\ \E seen \in maxHeld :
                    cmpPc' = [cmpPc EXCEPT ![t] =
                                IF Greater(relative_error, seen) THEN "lock" ELSE "flags"]
              /\ cmpRel' = [cmpRel EXCEPT ![t] = relative_error]
              /\ UNCHANGED <<isInf, isNaN>>
    /\ UNCHANGED <<mmaVars, coopVars, vutVars, crArgs, crResult, cmpArgs, cmpI,
                   max_relative_error, maxHeld, writeMutex, cmpResult>>

\* Line 554: the lock_guard takes the mutex.
CmpLock(t) ==
    /\ cmpPc[t] = "lock"
    /\ writeMutex = <<>>
    /\ writeMutex' = <<t>>
    /\ cmpPc' = [cmpPc EXCEPT ![t] = "update"]
    /\ UNCHANGED <<mmaVars, coopVars, vutVars, crArgs, crResult, cmpArgs, cmpI, cmpRel,
                   isInf, isNaN, max_relative_error, maxHeld, cmpResult>>

\* Lines 556-560: the second comparison, the write, and the release.
CmpUpdate(t) ==
    /\ cmpPc[t] = "update"
    /\ writeMutex = <<t>>
    /\ IF DoubleCheck(cmpRel[t], max_relative_error)
       THEN /\ max_relative_error' = cmpRel[t]
            /\ maxHeld' = maxHeld \cup {cmpRel[t]}
       ELSE UNCHANGED <<max_relative_error, maxHeld>>
    /\ writeMutex' = <<>>
    /\ cmpPc' = [cmpPc EXCEPT ![t] = "flags"]
    /\ UNCHANGED <<mmaVars, coopVars, vutVars, crArgs, crResult, cmpArgs, cmpI, cmpRel,
                   isInf, isNaN, cmpResult>>

\* Lines 563-566 and the loop increment.  Assigning the loop variable of
\* an OpenMP loop is not conforming: the thread either leaves its chunk
\* or goes on with the next iteration, the count having been fixed on
\* entry.  The flags are read without synchronisation.
CmpFlags(t) ==
    /\ cmpPc[t] = "flags"
    /\ \E next \in {cmpI[t] + 1} \cup
                   (IF isInf \/ isNaN THEN {ChunkHi(cmpArgs, t)} ELSE {}) :
         /\ cmpI' = [cmpI EXCEPT ![t] = next]
         /\ cmpPc' = [cmpPc EXCEPT ![t] =
                        IF next < ChunkHi(cmpArgs, t) THEN "body" ELSE "done"]
    /\ UNCHANGED <<mmaVars, coopVars, vutVars, crArgs, crResult, cmpArgs, cmpRel, isInf,
                   isNaN, max_relative_error, maxHeld, writeMutex, cmpResult>>

\* Lines 569-586, after the parallel loop.
CmpReturn ==
    /\ cmpResult = <<>>
    /\ \A t \in CmpThreads(cmpArgs) : cmpPc[t] = "done"
    /\ LET eps == Epsilon(cmpArgs.DataT)
           bound == EpsTimes(cmpArgs.DataT, cmpArgs.tolerance)
       IN  cmpResult' =
             IF isInf THEN <<FALSE, <<"inf", 0, 1>> >>
             ELSE IF isNaN THEN <<FALSE, <<"nan", 0, 1>> >>
             ELSE IF Greater(max_relative_error, bound)
                  THEN <<FALSE, max_relative_error>>
                  ELSE <<TRUE, max_relative_error>>
    /\ UNCHANGED <<mmaVars, coopVars, vutVars, crArgs, crResult, cmpArgs, cmpPc, cmpI,
                   cmpRel, isInf, isNaN, max_relative_error, maxHeld, writeMutex>>

NextCompare ==
    \/ \E t \in CmpThreads(cmpArgs) : CmpBody(t)
    \/ \E t \in CmpThreads(cmpArgs) : CmpLock(t)
    \/ \E t \in CmpThreads(cmpArgs) : CmpUpdate(t)
    \/ \E t \in CmpThreads(cmpArgs) : CmpFlags(t)
    \/ CmpReturn

CompareSpec == InitCompare /\ [][NextCompare]_vars

(***************************************************************************)
(* A launch of vectorUtilTest, one action per step of a thread between     *)
(* two accesses to memory other threads see.                               *)
(***************************************************************************)
InitVut ==
    /\ \E nb \in 1..MaxVutBlocks, nt \in 1..MaxVutThreads :
         \E e \in [(0..(nb - 1)) \X (0..(nt - 1)) -> BOOLEAN] :
            vutCfg = [blocks |-> nb, threads |-> nt, err |-> e]
    /\ vutPc = [t \in VutThreads(vutCfg) |-> "zero"]
    /\ vutArrivals = [t \in VutThreads(vutCfg) |-> 0]
    /\ vutResult \in [VutBlocks(vutCfg) -> SharedGarbage]
    /\ vutLog = [g \in VutBlocks(vutCfg) |-> <<>>]
    /\ vutOut = OutInitial
    /\ vutWrites = {}
    /\ CanRunIdle /\ CmpIdle /\ MmaIdle /\ CoopIdle

\* Lines 176-177: result = 0, arrival at the first barrier.
VutZero(t) ==
    /\ vutPc[t] = "zero"
    /\ vutResult' = [vutResult EXCEPT ![t[1]] = 0]
    /\ vutLog' = [vutLog EXCEPT ![t[1]] = Append(@, <<"zero", t>>)]
    /\ vutArrivals' = [vutArrivals EXCEPT ![t] = 1]
    /\ vutPc' = [vutPc EXCEPT ![t] = "tests"]
    /\ UNCHANGED <<mmaVars, coopVars, crArgs, crResult, cmpVars, vutCfg,
                   vutOut, vutWrites>>

\* Lines 177-191: release from the first barrier, the five tests, the
\* atomicAdd of the thread's err, arrival at the second barrier.
VutAdd(t) ==
    /\ vutPc[t] = "tests"
    /\ VutBarrierOpen(t, 1)
    /\ vutResult' = [vutResult EXCEPT ![t[1]] = @ + (IF vutCfg.err[t] THEN 1 ELSE 0)]
    /\ vutLog' = [vutLog EXCEPT ![t[1]] = Append(@, <<"add", t>>)]
    /\ vutArrivals' = [vutArrivals EXCEPT ![t] = 2]
    /\ vutPc' = [vutPc EXCEPT ![t] = "write"]
    /\ UNCHANGED <<mmaVars, coopVars, crArgs, crResult, cmpVars, vutCfg,
                   vutOut, vutWrites>>

\* Lines 191-198: release from the second barrier; thread (0,0,0) of block
\* (0,0,0) reads result and stores the verdict to out[0].
VutWrite(t) ==
    /\ vutPc[t] = "write"
    /\ VutBarrierOpen(t, 2)
    /\ IF t = <<0, 0>>
       THEN /\ vutOut' = [vutOut EXCEPT ![1] =
                            IF vutResult[t[1]] = 0 THEN SUCCESS_VALUE ELSE ERROR_VALUE]
            /\ vutWrites' = vutWrites \cup {<<t, 0>>}
            /\ vutLog' = [vutLog EXCEPT ![t[1]] = Append(@, <<"read", t>>)]
       ELSE UNCHANGED <<vutOut, vutWrites, vutLog>>
    /\ vutPc' = [vutPc EXCEPT ![t] = "done"]
    /\ UNCHANGED <<mmaVars, coopVars, crArgs, crResult, cmpVars, vutCfg,
                   vutArrivals, vutResult>>

NextVut ==
    \/ \E t \in VutThreads(vutCfg) : VutZero(t)
    \/ \E t \in VutThreads(vutCfg) : VutAdd(t)
    \/ \E t \in VutThreads(vutCfg) : VutWrite(t)

VutSpec == InitVut /\ [][NextVut]_vars

TypeOK ==
    /\ \A w \in Waves(cfg) :
          pc[w] \in {"check", "prime", "sync", "wait", "loop", "storeLds",
                     "drain", "epilogue", "done"}
    /\ DOMAIN d = 0..(cfg.m * cfg.n - 1)

(***************************************************************************)
(* Vocabulary of the properties.                                           *)
(***************************************************************************)
Done == \A w \in Waves(cfg) : pc[w] = "done"
HasOp(w, op) == \E i \in 1..Len(trace[w]) : trace[w][i][1] = op
CountOp(w, op) == Cardinality({i \in 1..Len(trace[w]) : trace[w][i][1] = op})
\* The whole BlockM x BlockN tile of the wave lies inside the m x n output.
TileInBounds(w) ==
    /\ matrixCoordC(w)[1] + cfg.BlockM <= cfg.m
    /\ matrixCoordC(w)[2] + cfg.BlockN <= cfg.n
\* The elements of the wave's tile that are elements of the m x n output.
TileElems(w) ==
    {e \in (0..(cfg.m - 1)) \X (0..(cfg.n - 1)) :
        /\ matrixCoordC(w)[1] <= e[1] /\ e[1] < matrixCoordC(w)[1] + cfg.BlockM
        /\ matrixCoordC(w)[2] <= e[2] /\ e[2] < matrixCoordC(w)[2] + cfg.BlockN}
NoPartialTiles == cfg.m % cfg.BlockM = 0 /\ cfg.n % cfg.BlockN = 0
KMultiple == cfg.k % cfg.BlockK = 0
Reference(i, j) == gemm_cpu_h(cfg, a, b, c, i, j)
DAt(i, j) == d[dIndex(cfg, i, j, cfg.ldd)]

\* Sanity of the model: with the guard passed (k > BlockK) the kernel agrees
\* with the reference on every launch the caller's contract allows.
GemmMatchesReferenceWhenGuardPasses ==
    (Done /\ NoPartialTiles /\ KMultiple /\ cfg.BlockK < cfg.k)
        => \A i \in 0..(cfg.m - 1), j \in 0..(cfg.n - 1) : DAt(i, j) = Reference(i, j)

(***************************************************************************)
(* C1: for m, n multiples of the block sizes, k a positive multiple of     *)
(* BlockK (k >= BlockK), every alpha, beta and layout combination: once    *)
(* all waves have finished, every D[i, j] equals the value gemm_cpu_h      *)
(* computes.                                                               *)
(***************************************************************************)
C1_GemmMatchesReference ==
    (Done /\ NoPartialTiles /\ KMultiple /\ cfg.k >= cfg.BlockK)
        => \A i \in 0..(cfg.m - 1), j \in 0..(cfg.n - 1) : DAt(i, j) = Reference(i, j)

(***************************************************************************)
(* C2: a wave whose tile is in bounds accumulates and writes its D tile    *)
(* for every k >= BlockK, k = BlockK included; it is idle only when        *)
(* k < BlockK or its tile is out of bounds.                                *)
(***************************************************************************)
C2_ProceedsWhenKAtLeastBlockK ==
    \A w \in Waves(cfg) :
        (pc[w] = "done" /\ TileInBounds(w) /\ cfg.k >= cfg.BlockK)
            => HasOp(w, "storeD")

(***************************************************************************)
(* C3: a wave passes the eligibility check only if its whole tile lies     *)
(* inside the m x n output, so no wave loads C or stores D at a row >= m   *)
(* or a column >= n.                                                       *)
(***************************************************************************)
C3_EligibleOnlyIfTileInBounds ==
    \A w \in Waves(cfg) :
        /\ pc[w] \notin {"check", "done"} => TileInBounds(w)
        /\ (HasOp(w, "loadC") \/ HasOp(w, "storeD")) => TileInBounds(w)

(***************************************************************************)
(* C4: when m or n is not a multiple of the block size, a wave whose tile  *)
(* is out of bounds issues no global load, no LDS access, no barrier       *)
(* arrival and no store, so the D region of its tile is unchanged, and     *)
(* every in-bounds tile receives alpha * A.B + beta * C.  (Stated for k a  *)
(* multiple of BlockK that passes the guard.)                              *)
(***************************************************************************)
C4_OutOfBoundsTileUntouched ==
    (~NoPartialTiles /\ KMultiple /\ cfg.BlockK < cfg.k) =>
        \A w \in Waves(cfg) :
            /\ ~TileInBounds(w) => trace[w] = <<>> /\ arrivals[w] = 0
            /\ (Done /\ ~TileInBounds(w)) =>
                  \A e \in TileElems(w) :
                      DAt(e[1], e[2]) = dInitial(cfg)[dIndex(cfg, e[1], e[2], cfg.ldd)]
            /\ (Done /\ TileInBounds(w)) =>
                  \A e \in TileElems(w) : DAt(e[1], e[2]) = Reference(e[1], e[2])

(***************************************************************************)
(* C5: with alpha = 0 an eligible wave issues no global load of A or B, no *)
(* LDS store or load, no barrier arrival and no multiply-accumulate; its   *)
(* accumulator stays all-zero and the D tile it writes equals beta * C.    *)
(***************************************************************************)
AccumulateOps ==
    {"loadA", "loadB", "storeLdsA", "storeLdsB", "loadLdsA", "loadLdsB",
     "barrier", "mma"}
C5_NoAccumulation ==
    cfg.alpha = 0 =>
        \A w \in Waves(cfg) :
            /\ \A op \in AccumulateOps : ~HasOp(w, op)
            /\ arrivals[w] = 0
            /\ HasOp(w, "fillAcc") =>
                  fragAcc[w] = [x \in 0..(cfg.BlockM * cfg.BlockN - 1) |-> 0]
C5_WritesBetaC(w) ==
    (cfg.alpha = 0 /\ pc[w] = "epilogue" /\ pc'[w] = "done") =>
        \A e \in TileElems(w) :
            d'[dIndex(cfg, e[1], e[2], cfg.ldd)]
                = cfg.beta * c[cIndex(cfg, e[1], e[2], cfg.ldc)]
C5_ZeroAlphaShortcut ==
    /\ [](C5_NoAccumulation)
    /\ [][\A w \in Waves(cfg) : C5_WritesBetaC(w)]_vars
C5_Witness ==
    \E w \in Waves(cfg) :
        cfg.alpha = 0 /\ cfg.beta # 0 /\ pc[w] = "done" /\ HasOp(w, "storeD")

(***************************************************************************)
(* C6: with beta = 0 an eligible wave never reads the C buffer and the D   *)
(* tile it writes equals alpha * A.B (k a multiple of BlockK).             *)
(***************************************************************************)
C6_NoLoadOfC == cfg.beta = 0 => \A w \in Waves(cfg) : ~HasOp(w, "loadC")
C6_WritesAlphaAB(w) ==
    (cfg.beta = 0 /\ KMultiple /\ pc[w] = "epilogue" /\ pc'[w] = "done") =>
        \A e \in TileElems(w) :
            d'[dIndex(cfg, e[1], e[2], cfg.ldd)]
                = cfg.alpha * gemm_accum(cfg, a, b, e[1], e[2], 0, 0)
C6_ZeroBetaShortcut ==
    /\ [](C6_NoLoadOfC)
    /\ [][\A w \in Waves(cfg) : C6_WritesAlphaAB(w)]_vars
C6_Witness ==
    \E w \in Waves(cfg) :
        cfg.beta = 0 /\ cfg.alpha # 0 /\ pc[w] = "done" /\ HasOp(w, "storeD")

(***************************************************************************)
(* C7: for an eligible wave with alpha # 0 and k a multiple of BlockK the  *)
(* loop body runs exactly k / BlockK - 1 times and exactly one further     *)
(* multiply-accumulate follows the loop: k / BlockK in total.              *)
(***************************************************************************)
\* Number of loop bodies the wave has completed (each ends with an LDS
\* store; one more LDS store is the staging before the loop).
LoopBodies(w) == CountOp(w, "storeLdsA") - 1
C7_LoopCount ==
    \A w \in Waves(cfg) :
        (HasOp(w, "loadA") /\ KMultiple) =>
            /\ LoopBodies(w) <= cfg.k \div cfg.BlockK - 1
            /\ CountOp(w, "mma") <= cfg.k \div cfg.BlockK
            /\ pc[w] \in {"sync", "wait", "loop", "drain"}
                  => CountOp(w, "mma") = LoopBodies(w)
            /\ pc[w] = "drain" => LoopBodies(w) = cfg.k \div cfg.BlockK - 1
            /\ pc[w] \in {"epilogue", "done"} =>
                  /\ LoopBodies(w) = cfg.k \div cfg.BlockK - 1
                  /\ CountOp(w, "mma") = cfg.k \div cfg.BlockK
C7_Witness ==
    \E w \in Waves(cfg) :
        /\ pc[w] = "done" /\ KMultiple /\ cfg.k = MaxKBlocks * cfg.BlockK
        /\ CountOp(w, "mma") = MaxKBlocks

LdsOpsA == {"storeLdsA", "loadLdsA"}
LdsOpsB == {"storeLdsB", "loadLdsB"}
LdsEvents(w, ops) == {i \in 1..Len(trace[w]) : trace[w][i][1] \in ops}
LdsTouched(w) == UNION {trace[w][i][2] : i \in LdsEvents(w, LdsOpsA \cup LdsOpsB)}
Lowest(S) == CHOOSE x \in S : \A y \in S : x <= y
SlotShaped(S, regCount) ==
    S = {Lowest(S) + r * (WaveSize * workgroupDim(cfg)[2]) + l :
            r \in 0..(regCount - 1), l \in 0..(WaveSize - 1)}
C9_LdsSlotsDisjoint ==
    /\ \A v, w \in Waves(cfg) :
          (v # w /\ SameWorkgroup(v, w)) => LdsTouched(v) \cap LdsTouched(w) = {}
    /\ \A w \in Waves(cfg) :
          /\ LdsTouched(w) \subseteq 0..(ldsSize - 1)
          /\ \A i \in LdsEvents(w, LdsOpsA) : SlotShaped(trace[w][i][2], FragASz)
          /\ \A i \in LdsEvents(w, LdsOpsB) : SlotShaped(trace[w][i][2], FragBSz)
C9_Witness ==
    \E v, w \in Waves(cfg) :
        /\ v # w /\ SameWorkgroup(v, w) /\ workgroupDim(cfg)[2] = 2
        /\ pc[v] = "done" /\ pc[w] = "done"
        /\ LdsTouched(v) # {} /\ LdsTouched(w) # {}
        /\ FragASz > 1

(***************************************************************************)
(* C10: the B region of the LDS starts at the A-region base plus the       *)
(* A-region size (workgroupRows * FragA size * ldLds elements); every      *)
(* address of a wave's A slot is below that base and every address of a    *)
(* wave's B slot is at or above it.                                        *)
(***************************************************************************)
RegionASize == workgroupDim(cfg)[1] * FragASz * (WaveSize * workgroupDim(cfg)[2])
C10_LdsRegionsDisjoint ==
    /\ baseAddrLdsB = baseAddrLdsA + RegionASize
    /\ \A w \in Waves(cfg) :
          /\ \A i \in LdsEvents(w, LdsOpsA) :
                \A x \in trace[w][i][2] :
                    baseAddrLdsA <= x /\ x < baseAddrLdsA + RegionASize
          /\ \A i \in LdsEvents(w, LdsOpsB) :
                \A x \in trace[w][i][2] : baseAddrLdsA + RegionASize <= x
C10_Witness ==
    \E w \in Waves(cfg) :
        /\ waveCoord(w)[1] = 1 /\ FragASz # FragBSz
        /\ LdsEvents(w, LdsOpsA) # {} /\ LdsEvents(w, LdsOpsB) # {}

(***************************************************************************)
(* C11: the workgroup barrier does not affect results.  With               *)
(* synchronize_workgroup a no-op, every interleaving of the waves ends     *)
(* with the D the barrier-respecting executions (which are among these     *)
(* interleavings) end with: a function of the launch alone.  Stated for    *)
(* m, n multiples of the block sizes, where that D is determined.          *)
(***************************************************************************)
\* The K-slices a wave multiply-accumulates.
KSlices == cfg.k \div cfg.BlockK
\* D[i, j] after a launch: untouched when the guard fails, else the
\* reference over the first KSlices * BlockK columns of A and rows of B.
ExpectedD(i, j) ==
    IF cfg.BlockK < cfg.k
    THEN gemm_cpu_h([cfg EXCEPT !.k = KSlices * cfg.BlockK], a, b, c, i, j)
    ELSE dInitial(cfg)[dIndex(cfg, i, j, cfg.ldd)]
C11_BarrierIsNoOp ==
    (Done /\ NoPartialTiles)
        => \A i \in 0..(cfg.m - 1), j \in 0..(cfg.n - 1) : DAt(i, j) = ExpectedD(i, j)
\* A wave has run its whole loop and stored D while another wave of its
\* workgroup has not reached the barrier once.
C11_Witness ==
    \E v, w \in Waves(cfg) :
        /\ v # w /\ SameWorkgroup(v, w) /\ NoPartialTiles
        /\ pc[w] = "done" /\ arrivals[w] >= 2
        /\ pc[v] = "prime" /\ arrivals[v] = 0
        /\ \A e \in TileElems(w) : DAt(e[1], e[2]) = ExpectedD(e[1], e[2])

(***************************************************************************)
(* C12: running the kernel twice with the same m, n, k, A, B, C, alpha,    *)
(* beta and the same D buffer leaves, after the second run, the D the      *)
(* first run left: the result depends neither on the prior contents of D   *)
(* nor on the interleaving of the waves.                                   *)
(***************************************************************************)
C12_SecondRunSameD == (launch = 2 /\ Done) => d = dPrev
\* The same, for m and n multiples of the block sizes.
SecondRunSameDWhenTilesWhole == (launch = 2 /\ Done /\ NoPartialTiles) => d = dPrev

(***************************************************************************)
(* C13: a fragment stored to its wave's LDS slot through the register-file *)
(* view and loaded back from the same slot through the same view holds,    *)
(* element for element, the values it held before the store.               *)
(***************************************************************************)
\* What a load through the register-file view reads from the wave's slots.
StagedA(w) ==
    load_matrix_sync_lds(lds[wgOf(w)], addrLdsA(w), ldLds, FragLdsSize(FragASz))
StagedB(w) ==
    load_matrix_sync_lds(lds[wgOf(w)], addrLdsB(w), ldLds, FragLdsSize(FragBSz))
\* The fragments the wave stored to its slots last.
LastStoredA(w) == IF CountOp(w, "storeLdsA") = 1 THEN fragA[w] ELSE fragANext[w]
LastStoredB(w) == IF CountOp(w, "storeLdsB") = 1 THEN fragB[w] ELSE fragBNext[w]
C13_LdsRoundTrip ==
    \A w \in Waves(cfg) :
        /\ pc[w] \in {"sync", "wait", "loop", "drain"} =>
              /\ StagedA(w) = LastStoredA(w)
              /\ StagedB(w) = LastStoredB(w)
        /\ (pc[w] = "epilogue" /\ HasOp(w, "mma")) =>
              /\ fragA[w] = LastStoredA(w)
              /\ fragB[w] = LastStoredB(w)
C13_Witness ==
    \E v, w \in Waves(cfg) :
        /\ v # w /\ SameWorkgroup(v, w)
        /\ pc[w] = "epilogue" /\ CountOp(w, "loadLdsA") >= 2
        /\ HasOp(v, "storeLdsA")
        /\ fragA[w] = fragANext[w] /\ fragB[w] = fragBNext[w]
        /\ \E x \in DOMAIN fragA[w] : fragA[w][x] # 99

(***************************************************************************)
(* C14: each eligible wave executes the epilogue exactly once, after its   *)
(* last multiply-accumulate (directly after the accumulator fill when      *)
(* alpha = 0): it stores to D exactly once, the store is its last memory   *)
(* action, and no D store precedes the drain multiply-accumulate.          *)
(***************************************************************************)
OpIndices(w, op) == {i \in 1..Len(trace[w]) : trace[w][i][1] = op}
C14_EpilogueOnceAtEnd ==
    \A w \in Waves(cfg) :
        /\ CountOp(w, "storeD") <= 1 /\ CountOp(w, "fillC") <= 1
        /\ ~Eligible(w) => ~HasOp(w, "storeD")
        /\ (pc[w] = "done" /\ Eligible(w)) => CountOp(w, "storeD") = 1
        /\ HasOp(w, "storeD") =>
              /\ pc[w] = "done"
              /\ trace[w][Len(trace[w])][1] = "storeD"
        /\ \A i \in OpIndices(w, "fillC") :
              /\ \A x \in OpIndices(w, "mma") : x < i
              /\ IF cfg.alpha = 0
                 THEN i = 2 /\ trace[w][1][1] = "fillAcc"
                 ELSE trace[w][i - 1][1] = "mma"
C14_Witness ==
    \E v, w \in Waves(cfg) :
        /\ cfg.alpha # 0 /\ pc[w] = "done" /\ CountOp(w, "mma") >= 2
        /\ CountOp(w, "storeD") = 1
        /\ pc[v] = "done" /\ ~Eligible(v)

(***************************************************************************)
(* C15: no two distinct waves of a launch, in the same or in different     *)
(* workgroups, write the same element of D: the D tiles of any two         *)
(* eligible waves are disjoint sets of addresses.                          *)
(***************************************************************************)
\* The addresses of d the wave has stored to.
StoredD(w) ==
    UNION {BlockAddrs(cfg.LayoutD, trace[w][i][2], cfg.ldd, cfg.BlockM, cfg.BlockN)
              \cap DOMAIN d : i \in OpIndices(w, "storeD")}
C15_DTilesDisjoint ==
    \A v, w \in Waves(cfg) : v # w => StoredD(v) \cap StoredD(w) = {}
\* The same, for m and n multiples of the block sizes.
DTilesDisjointWhenTilesWhole == NoPartialTiles => C15_DTilesDisjoint

(***************************************************************************)
(* C16: the data address offset of (row, col) is row * ld + col for        *)
(* row-major and col * ld + row for column-major, and dataOffset(ld, (dr,  *)
(* dc)) is the difference of the addresses of (row + dr, col + dc) and     *)
(* (row, col); hence after s advances addrA and addrB of a wave are the    *)
(* addresses of A[tileRow, s * BlockK] and B[s * BlockK, tileCol].         *)
(***************************************************************************)
AddressAlgebra ==
    \A L \in Layouts, ld \in 1..(MaxCoord + 1) :
        \A row \in 0..MaxCoord, col \in 0..MaxCoord :
            /\ dataCoord(L, 0, ld, <<row, col>>) =
                  (IF L = row_major THEN row * ld + col ELSE col * ld + row)
            /\ \A dr \in 0..MaxCoord, dc \in 0..MaxCoord :
                  dataOffset(L, ld, <<dr, dc>>) =
                      dataCoord(L, 0, ld, <<row + dr, col + dc>>)
                        - dataCoord(L, 0, ld, <<row, col>>)
\* The advances of addrA and addrB the wave has made.
Advances(w) == CountOp(w, "storeLdsA")
C16_AddressesFollowSlices ==
    /\ (\A w \in Waves(cfg) : pc[w] = "check") => AddressAlgebra
    /\ \A w \in Waves(cfg) :
          HasOp(w, "storeLdsA") =>
              /\ addrA[w] = dataCoord(cfg.LayoutA, 0, cfg.lda,
                                      <<matrixCoordC(w)[1], Advances(w) * cfg.BlockK>>)
              /\ addrB[w] = dataCoord(cfg.LayoutB, 0, cfg.ldb,
                                      <<Advances(w) * cfg.BlockK, matrixCoordC(w)[2]>>)
C16_Witness ==
    \E w \in Waves(cfg) :
        /\ Advances(w) = 3 /\ cfg.BlockK > 1 /\ matrixCoordC(w)[1] > 0
        /\ cfg.LayoutA = col_major /\ cfg.LayoutB = row_major
        /\ addrA[w] = 3 * cfg.BlockK * cfg.lda + matrixCoordC(w)[1]

(***************************************************************************)
(* C17: every configuration in which a wave runs satisfies FragA size *    *)
(* wave width = BlockM * BlockK, FragB size * wave width = BlockK *        *)
(* BlockN, and register-file fragment size = native fragment size for A    *)
(* and for B; a configuration violating any of the four is rejected at     *)
(* build time and no wave of it ever executes.                             *)
(***************************************************************************)
FragmentSizesMatch(BlockM, BlockN, BlockK) ==
    /\ FragASize(BlockM, BlockK) * WaveSize = BlockM * BlockK
    /\ FragBSize(BlockK, BlockN) * WaveSize = BlockK * BlockN
    /\ FragLdsSize(FragASize(BlockM, BlockK)) = FragASize(BlockM, BlockK)
    /\ FragLdsSize(FragBSize(BlockK, BlockN)) = FragBSize(BlockK, BlockN)
Accumulated(w) ==
    /\ Eligible(w) /\ cfg.alpha # 0 /\ KMultiple
    /\ pc[w] \in {"epilogue", "done"}
SameArrivalsInWorkgroup ==
    \A v, w \in Waves(cfg) :
        (SameWorkgroup(v, w) /\ Accumulated(v) /\ Accumulated(w))
            => arrivals[v] = arrivals[w]
C18_BarrierPerSlice ==
    /\ \A w \in Waves(cfg) :
          Accumulated(w) => arrivals[w] = KSlices /\ CountOp(w, "mma") = KSlices
    /\ SameArrivalsInWorkgroup

(***************************************************************************)
(* C18 amended: each eligible wave with alpha # 0 arrives at the barrier   *)
(* once per iteration of the steady-state loop, k / BlockK - 1 times for   *)
(* the k / BlockK K-slices it multiply-accumulates (the drain slice is     *)
(* multiplied without a barrier), each arrival directly followed by the    *)
(* LDS load of that iteration; all eligible waves of one workgroup arrive  *)
(* the same number of times.                                               *)
(***************************************************************************)
C18_BarrierPerLoopIteration ==
    /\ \A w \in Waves(cfg) :
          /\ Accumulated(w) =>
                /\ arrivals[w] = KSlices - 1
                /\ CountOp(w, "barrier") = KSlices - 1
                /\ CountOp(w, "mma") = KSlices
          /\ \A i \in OpIndices(w, "barrier") :
                i < Len(trace[w]) => trace[w][i + 1][1] = "loadLdsA"
    /\ SameArrivalsInWorkgroup
C18_Witness ==
    \E v, w \in Waves(cfg) :
        /\ v # w /\ SameWorkgroup(v, w) /\ Accumulated(v) /\ Accumulated(w)
        /\ pc[v] = "done" /\ pc[w] = "done"
        /\ KSlices = 3 /\ arrivals[w] = 2 /\ CountOp(w, "mma") = 3

(***************************************************************************)
(* C19: in test_load_store_matrix_d, for M and N multiples of the          *)
(* workgroup's tile footprint, the launch grid of the host and each of the *)
(* eight layout combinations: the blocks the waves visit (the block        *)
(* columns of the workgroup for A, its block rows for B, from originBlock  *)
(* = blockCoord - waveCoord) cover every block of the M x N matrix, every  *)
(* copy writes the coordinate it read, and after the kernel a_out = a_in   *)
(* and b_out = b_in on all M * N elements.                                 *)
(***************************************************************************)
CoopDone == \A w \in Waves(tcfg) : tpc[w][1] = "end"
AllBlocks ==
    (0..((tcfg.m \div tcfg.BlockM) - 1)) \X (0..((tcfg.n \div tcfg.BlockN) - 1))
VisitedBy(w, op) ==
    {ttrace[w][i][2] : i \in {x \in 1..Len(ttrace[w]) : ttrace[w][x][1] = op}}
VisitedBlocks(op) == UNION {VisitedBy(w, op) : w \in Waves(tcfg)}
C19_CoopCopyIsIdentity ==
    /\ \A w \in Waves(tcfg) :
          \A i \in 1..Len(ttrace[w]) :
              /\ ttrace[w][i][3] = ttrace[w][i][4]
              /\ ttrace[w][i][2] \in AllBlocks
              /\ ttrace[w][i][1] = "A" =>
                    /\ ttrace[w][i][2][1] = blockCoord(tcfg, w)[1]
                    /\ ttrace[w][i][2][2] \div wgSize(tcfg)[2] = w[2]
              /\ ttrace[w][i][1] = "B" =>
                    /\ ttrace[w][i][2][2] = blockCoord(tcfg, w)[2]
                    /\ ttrace[w][i][2][1] \div wgSize(tcfg)[1] = w[1]
    /\ CoopDone =>
          /\ VisitedBlocks("A") = AllBlocks
          /\ VisitedBlocks("B") = AllBlocks
          /\ a_out = a_in
          /\ b_out = b_in
C19_Witness ==
    /\ CoopDone
    /\ wgSize(tcfg) = <<2, 2>> /\ tcfg.BlockM = 2
    /\ tcfg.LayoutA = col_major /\ tcfg.LayoutB = row_major
    /\ a_out = a_in /\ b_out = b_in /\ a_in # b_in


(***************************************************************************)
(* C20: canRun returns false whenever TBlockX is not a multiple of the     *)
(* wave size, or TBlockX is smaller than the wave size, or TBlockY < 1, or *)
(* TBlockX * TBlockY > 1024, or the architecture is neither gfx9 nor       *)
(* gfx11 -- for every input type, block size and architecture.             *)
(***************************************************************************)
\* TBlockX * TBlockY > 1024, as a product of integers.
ThreadsExceed1024(r) == ~LimbsAtMost(WideMul(Limbs(r.TBlockX), Limbs(r.TBlockY)), 1024)

\* The product of integers does not fit 32 bits.
ProductWraps(r) ==
    \E i \in 5..8 : WideMul(Limbs(r.TBlockX), Limbs(r.TBlockY))[i] # 0

MustReject(r) ==
    \/ r.TBlockX % r.WaveSize # 0
    \/ r.TBlockX < r.WaveSize
    \/ r.TBlockY < 1
    \/ ThreadsExceed1024(r)
    \/ r.ArchId \notin (Gfx9Archs \cup Gfx11Archs)

\* C20: after the call, a launch that breaks one of the five conditions
\* has been answered with false.
C20_CanRunRejects ==
    (crResult # <<>> /\ MustReject(crArgs)) => crResult = <<FALSE>>

\* The same, for the calls whose TBlockX * TBlockY fits a uint32_t.
CanRunRejectsWhenProductFits ==
    (crResult # <<>> /\ MustReject(crArgs) /\ ~ProductWraps(crArgs))
        => crResult = <<FALSE>>

\* A call answered with true although its thread block has more than
\* 1024 threads.
C20_Accepted ==
    crResult = <<TRUE>> /\ ThreadsExceed1024(crArgs)

\* Calls answered with true exist, and so do rejected oversized blocks.
CanRunAcceptsSome == crResult = <<TRUE>> /\ ~MustReject(crArgs)
CanRunRejectsOversized ==
    crResult = <<FALSE>> /\ ThreadsExceed1024(crArgs) /\ EnableRun(crArgs)

(***************************************************************************)
(* C21: on gfx908 with bfloat16_t input, wave size 64 and a valid thread   *)
(* block, canRun returns true for 16x16 blocks with any BlockK >= 8 that   *)
(* is a multiple of 8 and for 32x32 blocks with any BlockK >= 4 that is a  *)
(* multiple of 4.                                                          *)
(***************************************************************************)
\* A thread block every test on TBlockX and TBlockY accepts on gfx9.
ValidTBlockGfx9(r) ==
    /\ r.TBlockX % r.WaveSize = 0 /\ r.TBlockX >= r.WaveSize /\ r.TBlockY >= 1
    /\ ~ProductWraps(r)
    /\ LimbsAtLeast(TBlockProduct(r), Wave64)
    /\ ~ThreadsExceed1024(r)

HalvedBlockK(r) ==
    \/ (r.BlockM = 16 /\ r.BlockN = 16 /\ r.BlockK >= 8 /\ r.BlockK % 8 = 0)
    \/ (r.BlockM = 32 /\ r.BlockN = 32 /\ r.BlockK >= 4 /\ r.BlockK % 4 = 0)

Gfx908BF16Call(r) ==
    /\ r.ArchId = "GFX908" /\ r.InputT = "bfloat16_t" /\ r.WaveSize = Wave64
    /\ ValidTBlockGfx9(r)

\* C21: after such a call with a halved BlockK, the answer is true.
C21_Gfx908BF16HalvedBlockK ==
    (crResult # <<>> /\ Gfx908BF16Call(crArgs) /\ HalvedBlockK(crArgs))
        => crResult = <<TRUE>>

\* The same for the BlockK the general 16-bit test accepts.
Gfx908BF16FullBlockK ==
    (/\ crResult # <<>> /\ Gfx908BF16Call(crArgs)
     /\ \/ (isBlockMN16(crArgs) /\ KFits(crArgs, 16))
        \/ (isBlockMN32(crArgs) /\ KFits(crArgs, 8)))
        => crResult = <<TRUE>>

(***************************************************************************)
(* C22: canRun returns false for float64_t input on gfx908, and for        *)
(* float8_t, bfloat8_t or xfloat32_t input on every architecture other     *)
(* than gfx940, gfx941 and gfx942, whatever the block sizes and thread     *)
(* block dimensions.                                                       *)
(***************************************************************************)
UnsupportedTypeOnArch(r) ==
    \/ (r.InputT = "float64_t" /\ r.ArchId = "GFX908")
    \/ (/\ r.InputT \in {"float8_t", "bfloat8_t", "xfloat32_t"}
        /\ r.ArchId \notin {"GFX940", "GFX941", "GFX942"})

\* C22: after a call with such a type on such a device, the answer is false.
C22_UnsupportedTypeRejected ==
    (crResult # <<>> /\ UnsupportedTypeOnArch(crArgs)) => crResult = <<FALSE>>

\* A rejected call that only the type / architecture pairing can explain:
\* float8_t on gfx90a with a thread block and block sizes gfx942 accepts.
C22_Witness ==
    /\ crResult = <<FALSE>>
    /\ crArgs.InputT = "float8_t" /\ crArgs.ArchId = "GFX90A"
    /\ crArgs.WaveSize = Wave64 /\ ValidTBlockGfx9(crArgs)
    /\ canRun([crArgs EXCEPT !.ArchId = "GFX942"])

(***************************************************************************)
(* C23: compareEqual(a, b, size, tolerance) returns false whenever some    *)
(* element pair yields an infinite numerator or divisor or a NaN relative  *)
(* error (infinity reported in preference to NaN), and otherwise returns   *)
(* true exactly when the maximum over all i < size of                      *)
(* |a[i]-b[i]| / (|a[i]| + |b[i]| + 1) is at most epsilon(DataT) *         *)
(* tolerance, returning that maximum as the second component.              *)
(***************************************************************************)
\* |a[i]-b[i]| / (|a[i]| + |b[i]| + 1) of the elements themselves.
ExactErrorAt(r, i) ==
    LET numerator == Numerator(r.a[i + 1], r.b[i + 1])
        divisor == Divisor(r.a[i + 1], r.b[i + 1])
    IN  IF isinf(numerator) \/ isinf(divisor) THEN <<"inf", 0, 1>>
        ELSE Quotient(numerator, divisor)

\* The maximum of err(r, i) over i < n, for finite errors; 0 for n = 0.
RECURSIVE MaxExactError(_, _)
MaxExactError(r, n) ==
    IF n = 0 THEN Frac(0, 1)
    ELSE LET rest == MaxExactError(r, n - 1)
             e == ExactErrorAt(r, n - 1)
         IN  IF Greater(e, rest) THEN e ELSE rest
RECURSIVE MaxComputedError(_, _)
MaxComputedError(r, n) ==
    IF n = 0 THEN Frac(0, 1)
    ELSE LET rest == MaxComputedError(r, n - 1)
             e == RelativeErrorAt(r, n - 1)
         IN  IF Greater(e, rest) THEN e ELSE rest

SomeInf(r) == \E i \in 0..(r.size - 1) : ExactErrorAt(r, i)[1] = "inf"
SomeNaN(r) == \E i \in 0..(r.size - 1) : ExactErrorAt(r, i)[1] = "nan"
FloatExact(r) ==
    \A i \in 1..r.size : toDouble(r.a[i]) = r.a[i] /\ toDouble(r.b[i]) = r.b[i]

\* C23: the pair returned is the one the contract describes.
C23_CompareEqualContract ==
    cmpResult # <<>> =>
        IF SomeInf(cmpArgs) THEN cmpResult = <<FALSE, <<"inf", 0, 1>> >>
        ELSE IF SomeNaN(cmpArgs) THEN cmpResult = <<FALSE, <<"nan", 0, 1>> >>
        ELSE cmpResult =
               <<~Greater(MaxExactError(cmpArgs, cmpArgs.size),
                          EpsTimes(cmpArgs.DataT, cmpArgs.tolerance)),
                 MaxExactError(cmpArgs, cmpArgs.size)>>

\* What does hold: an infinite or NaN pair makes the first component
\* false, and arrays of values a float holds exactly, none infinite or
\* NaN, get the pair the contract describes.
CompareRejectsInfAndNaN ==
    (cmpResult # <<>> /\ (SomeInf(cmpArgs) \/ SomeNaN(cmpArgs)))
        => cmpResult[1] = FALSE
CompareContractWhenFloatExact ==
    (/\ cmpResult # <<>> /\ FloatExact(cmpArgs)
     /\ ~SomeInf(cmpArgs) /\ ~SomeNaN(cmpArgs))
        => cmpResult =
               <<~Greater(MaxExactError(cmpArgs, cmpArgs.size),
                          EpsTimes(cmpArgs.DataT, cmpArgs.tolerance)),
                 MaxExactError(cmpArgs, cmpArgs.size)>>
\* Arrays that differ and are reported equal with maximum error 0.
CompareMissesDifference ==
    /\ cmpResult = <<TRUE, Frac(0, 1)>>
    /\ \E i \in 1..cmpArgs.size : cmpArgs.a[i] # cmpArgs.b[i]
\* NaN reported although a pair with an infinite divisor exists.
CompareReportsNaNOverInf ==
    /\ cmpResult # <<>> /\ SomeInf(cmpArgs) /\ cmpResult[2][1] = "nan"

(***************************************************************************)
(* C29: under every interleaving of the parallel loop iterations of        *)
(* compareEqual in which no element is infinite or NaN,                    *)
(* max_relative_error never decreases and after the loop equals the        *)
(* maximum of the per-element relative errors: reading max_relative_error  *)
(* outside the mutex for the first comparison never causes a larger        *)
(* candidate to be lost or a smaller value to overwrite a larger one.      *)
(***************************************************************************)
NoInfNoNaN(r) == ~SomeInf(r) /\ ~SomeNaN(r)
CmpLoopDone == \A t \in CmpThreads(cmpArgs) : cmpPc[t] = "done"

\* C29: no step lowers max_relative_error, and once every thread has left
\* the loop it is the maximum of the relative errors the iterations computed.
C29_MaxNeverLost ==
    /\ [][NoInfNoNaN(cmpArgs) =>
            ~Greater(max_relative_error, max_relative_error')]_vars
    /\ []((NoInfNoNaN(cmpArgs) /\ CmpLoopDone) =>
            max_relative_error = MaxComputedError(cmpArgs, cmpArgs.size))

\* A thread holds the mutex with a candidate that passed the comparison
\* outside the mutex but is no longer greater than max_relative_error.
C29_Witness ==
    /\ NoInfNoNaN(cmpArgs)
    /\ \E t \in CmpThreads(cmpArgs) :
          /\ cmpPc[t] = "update"
          /\ ~Greater(cmpRel[t], max_relative_error)
          /\ Greater(max_relative_error, Frac(0, 1))

(***************************************************************************)
(* C24: for an eligible wave with alpha != 0, at every read-back of the    *)
(* staging slot (in loop iteration i = 0, 1, ... and in the drain) the     *)
(* slot holds exactly K-slice i of A and of B, the lowest slice not yet    *)
(* consumed: the j-th multiply-accumulate of the wave uses A[tileRow, j]   *)
(* and B[j, tileCol], and every slice 0 .. K/BlockK-1 is consumed exactly  *)
(* once, in increasing order.                                              *)
(***************************************************************************)
\* Blocks A[tileRow, s] and B[s, tileCol] as a load from global memory
\* delivers them.
SliceA(w, s) ==
    load_matrix_sync(cfg.LayoutA, a,
                     dataCoord(cfg.LayoutA, 0, cfg.lda,
                               <<matrixCoordC(w)[1], s * cfg.BlockK>>),
                     cfg.lda, cfg.BlockM, cfg.BlockK, cfg.garbage)
SliceB(w, s) ==
    load_matrix_sync(cfg.LayoutB, b,
                     dataCoord(cfg.LayoutB, 0, cfg.ldb,
                               <<s * cfg.BlockK, matrixCoordC(w)[2]>>),
                     cfg.ldb, cfg.BlockK, cfg.BlockN, cfg.garbage)
Consumed(w) == CountOp(w, "mma")

\* C24: before a read-back the slots hold slice number Consumed(w); the
\* multiply-accumulate just made used slice Consumed(w) - 1; at the end
\* K/BlockK slices have been consumed.
C24_SlicesConsumedInOrder ==
    \A w \in Waves(cfg) :
        (Eligible(w) /\ cfg.alpha # 0) =>
            /\ Consumed(w) <= cfg.k \div cfg.BlockK
            /\ pc[w] \in {"sync", "wait", "loop", "drain"} =>
                  /\ StagedA(w) = SliceA(w, Consumed(w))
                  /\ StagedB(w) = SliceB(w, Consumed(w))
            /\ (pc[w] \in {"storeLds", "epilogue", "done"} /\ Consumed(w) >= 1) =>
                  /\ fragA[w] = SliceA(w, Consumed(w) - 1)
                  /\ fragB[w] = SliceB(w, Consumed(w) - 1)
            /\ pc[w] \in {"epilogue", "done"} =>
                  Consumed(w) = cfg.k \div cfg.BlockK
C24_Witness ==
    \E w \in Waves(cfg) :
        /\ Eligible(w) /\ cfg.alpha # 0 /\ pc[w] = "drain"
        /\ cfg.BlockK > 1 /\ Consumed(w) = 2
        /\ StagedA(w) = SliceA(w, 2) /\ SliceA(w, 2) # SliceA(w, 1)
        /\ StagedB(w) = SliceB(w, 2) /\ SliceB(w, 2) # SliceB(w, 1)

(***************************************************************************)
(* C25: within each steady-state iteration of a wave the events occur in   *)
(* the order: barrier arrival, read of the staged A/B from its slot,       *)
(* global prefetch of the next slice, multiply-accumulate on the staged    *)
(* values, overwrite of its slot with the prefetched slice, address        *)
(* advance; the overwrite of a slot never precedes the multiply-accumulate *)
(* that consumes the slot's previous contents, and a slot is never         *)
(* overwritten twice without a read in between.                            *)
(***************************************************************************)
OpAt(w, i) == trace[w][i][1]
IterationOps ==
    <<"barrier", "loadLdsA", "loadLdsB", "loadA", "loadB", "mma",
      "storeLdsA", "storeLdsB">>
\* Every barrier arrival in the trace is followed by the operations of one
\* iteration, in order, as far as the wave has got.
IterationsInOrder(w) ==
    \A i \in OpIndices(w, "barrier") :
        \A o \in 1..(Len(IterationOps) - 1) :
            i + o <= Len(trace[w]) => OpAt(w, i + o) = IterationOps[o + 1]
\* Between two overwrites of a slot lie a read of the slot and, after the
\* read, a multiply-accumulate.
ReadBetweenOverwrites(w, storeOp, loadOp) ==
    \A i, j \in OpIndices(w, storeOp) :
        i < j => \E r \in OpIndices(w, loadOp), x \in OpIndices(w, "mma") :
                    i < r /\ r < x /\ x < j
\* A step that advances the addresses of a wave is one that has just
\* overwritten the wave's slots.
AdvanceAfterOverwrite ==
    \A w \in Waves(cfg) :
        (addrA'[w] # addrA[w] \/ addrB'[w] # addrB[w]) =>
            /\ Len(trace'[w]) > Len(trace[w])
            /\ trace'[w][Len(trace'[w])][1] = "storeLdsB"
            /\ trace'[w][Len(trace'[w]) - 1][1] = "storeLdsA"

C25_IterationOrder ==
    /\ [](\A w \in Waves(cfg) :
            /\ IterationsInOrder(w)
            /\ ReadBetweenOverwrites(w, "storeLdsA", "loadLdsA")
            /\ ReadBetweenOverwrites(w, "storeLdsB", "loadLdsB"))
    /\ [][AdvanceAfterOverwrite]_vars
C25_Witness ==
    \E w \in Waves(cfg) :
        /\ pc[w] = "done" /\ CountOp(w, "barrier") = 2
        /\ CountOp(w, "storeLdsA") = 3 /\ CountOp(w, "mma") = 3
        /\ \E v \in Waves(cfg) : v # w /\ SameWorkgroup(v, w) /\ HasOp(v, "mma")

(***************************************************************************)
(* C27: every global load of A and B issued by an eligible wave addresses  *)
(* a K-slice index s with 0 <= s < floor(K/BlockK): the priming load reads *)
(* slice 0, the prefetch of loop iteration i reads slice i+1, the prefetch *)
(* of the last iteration reads slice floor(K/BlockK)-1, and no load reads  *)
(* at or beyond A[tileRow, 0] + floor(K/BlockK) * blockStride.             *)
(***************************************************************************)
\* The addresses of the wave's global loads, in the order issued.
LoadAddrs(w, op) ==
    LET idx == OpIndices(w, op)
        Nth(n) == CHOOSE i \in idx : Cardinality({j \in idx : j < i}) = n
    IN  [n \in 0..(Cardinality(idx) - 1) |-> trace[w][Nth(n)][2]]
AddrOfSliceA(w, s) ==
    (IF cfg.LayoutA = row_major
        THEN matrixCoordC(w)[1] * cfg.lda ELSE matrixCoordC(w)[1])
    + s * (IF cfg.LayoutA = row_major THEN cfg.BlockK ELSE cfg.BlockK * cfg.lda)
AddrOfSliceB(w, s) ==
    (IF cfg.LayoutB = row_major
        THEN matrixCoordC(w)[2] ELSE matrixCoordC(w)[2] * cfg.ldb)
    + s * (IF cfg.LayoutB = row_major THEN cfg.BlockK * cfg.ldb ELSE cfg.BlockK)

\* C27: the n-th global load of A (of B) of a wave is the load of slice n,
\* n < floor(K/BlockK); a wave that has ended has loaded every slice once.
C27_LoadsWithinSlices ==
    \A w \in Waves(cfg) :
        /\ HasOp(w, "loadA") => Eligible(w)
        /\ Cardinality(DOMAIN LoadAddrs(w, "loadA")) <= cfg.k \div cfg.BlockK
        /\ Cardinality(DOMAIN LoadAddrs(w, "loadB")) <= cfg.k \div cfg.BlockK
        /\ \A n \in DOMAIN LoadAddrs(w, "loadA") :
              /\ LoadAddrs(w, "loadA")[n] = AddrOfSliceA(w, n)
              /\ LoadAddrs(w, "loadA")[n] < AddrOfSliceA(w, cfg.k \div cfg.BlockK)
        /\ \A n \in DOMAIN LoadAddrs(w, "loadB") :
              /\ LoadAddrs(w, "loadB")[n] = AddrOfSliceB(w, n)
              /\ LoadAddrs(w, "loadB")[n] < AddrOfSliceB(w, cfg.k \div cfg.BlockK)
        /\ (pc[w] \in {"drain", "epilogue", "done"} /\ HasOp(w, "loadA")) =>
              /\ CountOp(w, "loadA") = cfg.k \div cfg.BlockK
              /\ CountOp(w, "loadB") = cfg.k \div cfg.BlockK
C27_Witness ==
    \E w \in Waves(cfg) :
        /\ pc[w] = "done" /\ cfg.k % cfg.BlockK # 0 /\ cfg.BlockK > 1
        /\ CountOp(w, "loadA") = 2 /\ matrixCoordC(w)[1] > 0
        /\ LoadAddrs(w, "loadA")[1] = AddrOfSliceA(w, 1)

(***************************************************************************)
(* C28: mmaSyncLds never writes to the A, B or C buffers, and each         *)
(* eligible wave writes to global memory only within its own BlockM x      *)
(* BlockN tile of D; when C and D are distinct buffers, A, B and C have    *)
(* the same contents after the kernel as before it for every alpha, beta   *)
(* and interleaving.                                                       *)
(***************************************************************************)
\* Every global address the wave's stores are directed at.
StoreTargets(w) ==
    UNION {BlockAddrs(cfg.LayoutD, trace[w][i][2], cfg.ldd, cfg.BlockM, cfg.BlockN) :
              i \in OpIndices(w, "storeD")}
\* The addresses of the elements of D in the wave's tile.
OwnTileAddrs(w) == {dIndex(cfg, e[1], e[2], cfg.ldd) : e \in TileElems(w)}
InputsIntact ==
    /\ a = fillRand(cfg.seed, cfg.m, cfg.k)
    /\ b = fillRand(cfg.seed + 1, cfg.k, cfg.n)
    /\ c = fillRand(cfg.seed + 2, cfg.m, cfg.n)

\* C28: no store leaves the buffer of D, every store of a wave stays in the
\* wave's tile, and A, B and C are as the host filled them.
C28_WritesOnlyOwnTileOfD ==
    /\ InputsIntact
    /\ oobStores = {}
    /\ \A w \in Waves(cfg) : StoreTargets(w) \subseteq OwnTileAddrs(w)
\* The same, for m and n multiples of the block sizes.
WritesOnlyOwnTileWhenTilesWhole == NoPartialTiles => C28_WritesOnlyOwnTileOfD
\* A store past the end of the buffer of D.
StoreOutsideD == oobStores # {}

(***************************************************************************)
(* C30: for every K that passes the guard (K > BlockK) and every positive  *)
(* address increment, including K not a multiple of BlockK, the loop       *)
(* condition addrA != endA becomes false after exactly floor(K/BlockK) - 1 *)
(* iterations (addrA never steps over endA), the wave issues exactly       *)
(* floor(K/BlockK) multiply-accumulates, and the trailing K mod BlockK     *)
(* columns of A and rows of B are never read.                              *)
(***************************************************************************)
\* The addresses of the trailing columns of A and rows of B.
TrailingA ==
    {aIndex(cfg, i, h, cfg.lda) :
        i \in 0..(cfg.m - 1), h \in ((cfg.k \div cfg.BlockK) * cfg.BlockK)..(cfg.k - 1)}
TrailingB ==
    {bIndex(cfg, h, j, cfg.ldb) :
        h \in ((cfg.k \div cfg.BlockK) * cfg.BlockK)..(cfg.k - 1), j \in 0..(cfg.n - 1)}
\* The addresses the wave's global loads of A and of B have read.
ReadOfA(w) ==
    UNION {BlockAddrs(cfg.LayoutA, trace[w][i][2], cfg.lda, cfg.BlockM, cfg.BlockK) :
              i \in OpIndices(w, "loadA")}
ReadOfB(w) ==
    UNION {BlockAddrs(cfg.LayoutB, trace[w][i][2], cfg.ldb, cfg.BlockK, cfg.BlockN) :
              i \in OpIndices(w, "loadB")}
\* The loop of a wave that entered the accumulation ends after
\* floor(K/BlockK) - 1 iterations and floor(K/BlockK) multiply-accumulates.
LoopEndsAtFloor(w) ==
    /\ addrA[w] <= endA[w]
    /\ LoopBodies(w) <= cfg.k \div cfg.BlockK - 1
    /\ pc[w] \in {"drain", "epilogue", "done"} =>
          /\ addrA[w] = endA[w]
          /\ LoopBodies(w) = cfg.k \div cfg.BlockK - 1
    /\ pc[w] \in {"epilogue", "done"} => CountOp(w, "mma") = cfg.k \div cfg.BlockK
TrailingNeverRead(w) ==
    /\ ReadOfA(w) \cap TrailingA = {}
    /\ ReadOfB(w) \cap TrailingB = {}

C30_LoopEndsForEveryK ==
    \A w \in Waves(cfg) :
        HasOp(w, "loadA") => (LoopEndsAtFloor(w) /\ TrailingNeverRead(w))
\* The part on the loop alone, and the whole for whole tiles.
LoopEndsForEveryK ==
    \A w \in Waves(cfg) : HasOp(w, "loadA") => LoopEndsAtFloor(w)
LoopEndsForEveryKWhenTilesWhole == NoPartialTiles => C30_LoopEndsForEveryK
\* A wave has ended its loop for a K that is not a multiple of BlockK.
LoopEndedForOddK ==
    \E w \in Waves(cfg) :
        /\ pc[w] = "done" /\ cfg.k % cfg.BlockK # 0 /\ CountOp(w, "mma") = 2
        /\ NoPartialTiles /\ TrailingA # {}

(***************************************************************************)
(* C26: in vectorUtilTest, under every interleaving of the threads of a    *)
(* workgroup, the shared counter result is zeroed before any thread's      *)
(* atomicAdd and is read by the writer only after every thread's           *)
(* atomicAdd; exactly one thread of the whole launch (thread (0,0,0) of    *)
(* block (0,0,0)) writes out[0], no other element of out is written, and   *)
(* out[0] is SUCCESS_VALUE (0) if no thread reported an error and          *)
(* ERROR_VALUE (7) if any thread did.                                      *)
(***************************************************************************)
LogIndices(g, kind) == {i \in 1..Len(vutLog[g]) : vutLog[g][i][1] = kind}
VutDone == \A t \in VutThreads(vutCfg) : vutPc[t] = "done"
\* In every workgroup the stores of 0 precede the atomicAdds, and the read
\* follows the atomicAdd of every thread of the workgroup.
CounterOrdered ==
    \A g \in VutBlocks(vutCfg) :
        /\ \A i \in LogIndices(g, "zero"), j \in LogIndices(g, "add") : i < j
        /\ \A r \in LogIndices(g, "read") :
              \A t \in VutThreads(vutCfg) :
                  t[1] = g => \E j \in LogIndices(g, "add") :
                                 j < r /\ vutLog[g][j][2] = t
OnlyWriter ==
    /\ vutWrites \subseteq {<<<<0, 0>>, 0>>}
    /\ \A x \in 2..Len(vutOut) : vutOut[x] = OutInitial[x]
    /\ VutDone => vutWrites = {<<<<0, 0>>, 0>>}
VerdictOfLaunch ==
    VutDone =>
        vutOut[1] = IF \E t \in VutThreads(vutCfg) : vutCfg.err[t]
                    THEN ERROR_VALUE ELSE SUCCESS_VALUE
VerdictOfFirstBlock ==
    VutDone =>
        vutOut[1] = IF \E t \in VutThreads(vutCfg) : t[1] = 0 /\ vutCfg.err[t]
                    THEN ERROR_VALUE ELSE SUCCESS_VALUE

VerdictOfFirstBlockOnly == CounterOrdered /\ OnlyWriter /\ VerdictOfFirstBlock
\* A launch that ended with SUCCESS_VALUE although a thread reported an error.
ErrorUnreported ==
    /\ VutDone /\ vutOut[1] = SUCCESS_VALUE
    /\ \E t \in VutThreads(vutCfg) : vutCfg.err[t]

====
